---- MODULE Spec2Model ----
(***************************************************************************)
(* A model of the cgp-dss-data-loader: the Standard format uploader's      *)
(* load_all_bundles run (parsing, sequential and concurrent loading, the   *)
(* keyboard-interrupt path and the final accounting), the per-bundle load  *)
(* of the Standard and Gen3 uploaders, and the base upload library's       *)
(* by-reference upload.                                                    *)
(***************************************************************************)
EXTENDS Integers, Sequences, FiniteSets, TLC

(***************************************************************************)
(* Bounds of the model.                                                    *)
(***************************************************************************)
MaxBundles == 3
MaxFiles == 2
MaxInterrupts == 2
MaxCalls == 2
MaxPolls == 2
MaxTokens == 3
MaxUrls == 2
MaxNodes == 2
MaxCount == 6
ChunkUnit == 2
MaxTimeout == 6

Min(S) == CHOOSE x \in S : \A y \in S : x <= y
Range(s) == {s[i] : i \in 1..Len(s)}
Count(s, x) == Cardinality({i \in 1..Len(s) : s[i] = x})

(***************************************************************************)
(* Standard format input.  A bundle is abstracted to what _parse_bundle    *)
(* looks at: which keys are present and what shape the values have.        *)
(*   data_bundle, id, user_metadata : the key is present                   *)
(*   data_objects.kind : "absent" or the JSON type of the value            *)
(*   data_objects.size : number of elements of a string or list value      *)
(*   data_objects.elem : for a list, what indexing the list by one of its  *)
(*                       own elements does                                 *)
(*   data_objects.files: for a mapping, its entries in insertion order     *)
(* A file entry (file guid -> file_info):                                  *)
(*   nuuid   : number of matches of the UUID pattern in the file guid      *)
(*   is_dict : file_info is a mapping                                      *)
(*   name    : file_info has the key 'name'                                *)
(*   updated, created : "absent", "valid" (matches the RFC 3339 pattern),  *)
(*                      "invalid" (a string that does not match) or        *)
(*                      "nonstring"                                        *)
(*   urls    : [present, entries], every entry one of UrlEntryKinds        *)
(***************************************************************************)
VersionKinds == {"absent", "valid", "invalid", "nonstring"}
UrlEntryKinds == {"dict_url", "dict_nourl", "str_nourl", "str_url"}
DataObjectsKinds == {"absent", "mapping", "string", "list", "number", "null"}

\* list.append, atomic in the interpreter
ListAppend(l, x) == Append(l, x)

\* StandardFormatBundleUploader._get_file_uuid: the outcome of the match count
GetFileUuid(f) == IF f.nuuid # 1 THEN "ParseError" ELSE "ok"

\* parse_version_key inside _get_file_version: "none" stands for None
ParseVersionKey(v) ==
    CASE v = "absent"    -> [exc |-> "none", version |-> "none"]
      [] v = "invalid"   -> [exc |-> "none", version |-> "none"]
      [] v = "valid"     -> [exc |-> "none", version |-> "value"]
      [] v = "nonstring" -> [exc |-> "TypeError", version |-> "none"]

\* StandardFormatBundleUploader._get_file_version
GetFileVersion(f) ==
    LET u == ParseVersionKey(f.updated)
        c == ParseVersionKey(f.created)
    IN  IF u.exc # "none" THEN [exc |-> u.exc, from |-> "none"]
        ELSE IF u.version # "none" THEN [exc |-> "none", from |-> "updated"]
        ELSE IF c.exc # "none" THEN [exc |-> c.exc, from |-> "none"]
        ELSE IF c.version # "none" THEN [exc |-> "none", from |-> "created"]
        ELSE [exc |-> "ParseError", from |-> "none"]

\* StandardFormatBundleUploader._get_cloud_urls
GetCloudUrls(f) ==
    IF ~f.urls.present THEN "ParseError"
    ELSE IF Len(f.urls.entries) < 1 THEN "ParseError"
    ELSE IF \E k \in 1..Len(f.urls.entries) :
                 f.urls.entries[k] \in {"dict_nourl", "str_nourl"} THEN "ParseError"
    ELSE IF \E k \in 1..Len(f.urls.entries) : f.urls.entries[k] = "str_url" THEN "TypeError"
    ELSE "ok"

\* one iteration of the loop over data_objects in _parse_bundle
ParseFile(f) ==
    IF ~f.is_dict THEN "ParseError"
    ELSE IF ~f.name THEN "KeyError"
    ELSE IF GetFileUuid(f) # "ok" THEN GetFileUuid(f)
    ELSE IF GetFileVersion(f).exc # "none" THEN GetFileVersion(f).exc
    ELSE GetCloudUrls(f)

\* StandardFormatBundleUploader._parse_bundle: "ok" or the exception raised
ParseBundle(b) ==
    IF ~b.data_bundle \/ ~b.id \/ ~b.user_metadata \/ b.data_objects.kind = "absent"
    THEN "ParseError"
    ELSE CASE b.data_objects.kind \in {"number", "null"} -> "TypeError"
           [] b.data_objects.kind = "string" ->
                 IF b.data_objects.size = 0 THEN "ok" ELSE "ParseError"
           [] b.data_objects.kind = "list" ->
                 IF b.data_objects.size = 0 THEN "ok"
                 ELSE IF b.data_objects.elem = "out_of_range" THEN "IndexError"
                 ELSE "ParseError"
           [] b.data_objects.kind = "mapping" ->
                 LET files == b.data_objects.files
                     bad == {k \in 1..Len(files) : ParseFile(files[k]) # "ok"}
                 IN  IF bad = {} THEN "ok" ELSE ParseFile(files[Min(bad)])

\* number of ParsedDataFile entries of the ParsedBundle
ParsedFileCount(b) ==
    IF b.data_objects.kind = "mapping" THEN Len(b.data_objects.files) ELSE 0

(***************************************************************************)
(* The bundles a run is given.                                             *)
(***************************************************************************)
GoodFile ==
    [nuuid |-> 1, is_dict |-> TRUE, name |-> TRUE, updated |-> "absent",
     created |-> "valid", urls |-> [present |-> TRUE, entries |-> <<"dict_url">>]]
NamelessFile == [GoodFile EXCEPT !.name = FALSE]

Mapping(files) == [kind |-> "mapping", size |-> Len(files), elem |-> "none", files |-> files]

GoodBundle(n) ==
    [data_bundle |-> TRUE, id |-> TRUE, user_metadata |-> TRUE,
     data_objects |-> Mapping([k \in 1..n |-> GoodFile])]
\* no user_metadata: _parse_bundle raises ParseError
BadBundle == [GoodBundle(0) EXCEPT !.user_metadata = FALSE]
\* a data object without 'name'
NamelessBundle == [GoodBundle(0) EXCEPT !.data_objects = Mapping(<<NamelessFile>>)]

SampleBundles == {GoodBundle(0), GoodBundle(1), BadBundle, NamelessBundle}

\* the required fields of section "Parsing rules": what a structurally valid
\* bundle of the standard format has
FileStructurallyValid(f) ==
    /\ f.is_dict /\ f.name /\ f.nuuid = 1
    /\ (f.updated = "valid" \/ f.created = "valid")
    /\ f.urls.present /\ Len(f.urls.entries) >= 1
    /\ \A k \in 1..Len(f.urls.entries) : f.urls.entries[k] = "dict_url"
StructurallyValid(b) ==
    /\ b.data_bundle /\ b.id /\ b.user_metadata
    /\ b.data_objects.kind = "mapping"
    /\ \A k \in 1..Len(b.data_objects.files) : FileStructurallyValid(b.data_objects.files[k])

(***************************************************************************)
(* StandardFormatBundleUploader.load_all_bundles.                          *)
(*                                                                         *)
(* Bundles are named by their position in the input list.  The main thread *)
(* is at pc; the worker pool runs one task per submitted bundle (the       *)
(* default pool has at least five workers, more than the bundles of a run  *)
(* here, so no task waits for a free worker).  _load_bundle touches no     *)
(* state of the uploader, so a call is one step whose outcome (it returns  *)
(* or it raises) is the environment's choice; the append that records the  *)
(* outcome is a step of its own in a worker task.                          *)
(*                                                                         *)
(*   task[b] : "none"          no load of b has started                    *)
(*             "queued"        submitted to the pool                       *)
(*             "returned"      _load_bundle returned, append pending       *)
(*             "raised"        _load_bundle raised, append pending         *)
(*             "done_returned" recorded in bundles_loaded                  *)
(*             "done_raised"   recorded in bundles_failed_parsed           *)
(*             "interrupted"   the main thread was loading b when the      *)
(*                             keyboard interrupt arrived                  *)
(*   exc        : the exception travelling up to load_all_bundles          *)
(*   inflight   : the bundle the main thread was processing when it was    *)
(*                interrupted (0: none)                                    *)
(*   propagated : the exception that leaves load_all_bundles               *)
(***************************************************************************)
VARIABLES input, concurrently, pc, idx, inflight, exc, interrupts,
          bundles_parsed, bundles_failed_unparsed, bundles_loaded, bundles_failed_parsed,
          task, unattempted, success, propagated

runVars == <<input, concurrently, pc, idx, inflight, exc, interrupts,
             bundles_parsed, bundles_failed_unparsed, bundles_loaded, bundles_failed_parsed,
             task, unattempted, success, propagated>>

lists == <<bundles_parsed, bundles_failed_unparsed, bundles_loaded, bundles_failed_parsed>>

Inputs == UNION {[1..n -> SampleBundles] : n \in 0..MaxBundles}

Pending(t) == t \in {"queued", "returned", "raised"}
NoTaskPending == \A b \in DOMAIN task : ~Pending(task[b])

\* __init__ followed by the entry of load_all_bundles
RunInit ==
    /\ input \in Inputs
    /\ concurrently \in BOOLEAN
    /\ pc = "parse"
    /\ idx = 1
    /\ inflight = 0
    /\ exc = "none"
    /\ interrupts = 0
    /\ bundles_parsed = <<>>
    /\ bundles_failed_unparsed = <<>>
    /\ bundles_loaded = <<>>
    /\ bundles_failed_parsed = <<>>
    /\ task = [b \in 1..Len(input) |-> "none"]
    /\ unattempted = 0
    /\ success = TRUE
    /\ propagated = "none"

\* _parse_all_bundles, one iteration of the loop
ParseStep ==
    /\ pc = "parse" /\ idx <= Len(input)
    /\ LET r == ParseBundle(input[idx])
       IN  CASE r = "ok" ->
                  /\ bundles_parsed' = ListAppend(bundles_parsed, idx)
                  /\ idx' = idx + 1
                  /\ UNCHANGED <<bundles_failed_unparsed, pc, exc>>
             [] r = "ParseError" ->
                  /\ bundles_failed_unparsed' = ListAppend(bundles_failed_unparsed, idx)
                  /\ idx' = idx + 1
                  /\ UNCHANGED <<bundles_parsed, pc, exc>>
             [] OTHER ->
                  /\ exc' = r
                  /\ pc' = "finally"
                  /\ UNCHANGED <<bundles_parsed, bundles_failed_unparsed, idx>>
    /\ UNCHANGED <<input, concurrently, inflight, interrupts, bundles_loaded,
                   bundles_failed_parsed, task, unattempted, success, propagated>>

\* _parse_all_bundles returns; load_all_bundles chooses the loading mode
ParseFinished ==
    /\ pc = "parse" /\ idx > Len(input)
    /\ pc' = IF concurrently THEN "submit" ELSE "load"
    /\ idx' = 1
    /\ UNCHANGED <<input, concurrently, inflight, exc, interrupts, lists, task,
                   unattempted, success, propagated>>

\* the body of the loop of _load_parsed_bundles after _load_bundle raised
\* Exception, with the loop left instead of continued
RecordSequentialAbort(b, r) ==
    /\ task' = [task EXCEPT ![b] = IF r = "returned" THEN "done_returned" ELSE "done_raised"]
    /\ IF r = "returned"
       THEN /\ bundles_loaded' = ListAppend(bundles_loaded, b)
            /\ idx' = idx + 1
            /\ UNCHANGED bundles_failed_parsed
       ELSE /\ bundles_failed_parsed' = ListAppend(bundles_failed_parsed, b)
            /\ idx' = Len(bundles_parsed) + 1
            /\ UNCHANGED bundles_loaded

\* the body of the loop of _load_parsed_bundles after _load_bundle raised
\* Exception, without the continue: the failed bundle is appended to
\* bundles_loaded as well
RecordSequentialBoth(b, r) ==
    /\ task' = [task EXCEPT ![b] = IF r = "returned" THEN "done_returned" ELSE "done_raised"]
    /\ idx' = idx + 1
    /\ bundles_loaded' = ListAppend(bundles_loaded, b)
    /\ IF r = "returned"
       THEN UNCHANGED bundles_failed_parsed
       ELSE bundles_failed_parsed' = ListAppend(bundles_failed_parsed, b)

\* the body of the loop of _load_parsed_bundles: _load_bundle returned or raised
RecordSequential(b, r) ==
    /\ task' = [task EXCEPT ![b] = IF r = "returned" THEN "done_returned" ELSE "done_raised"]
    /\ idx' = idx + 1
    /\ IF r = "returned"
       THEN /\ bundles_loaded' = ListAppend(bundles_loaded, b)
            /\ UNCHANGED bundles_failed_parsed
       ELSE /\ bundles_failed_parsed' = ListAppend(bundles_failed_parsed, b)
            /\ UNCHANGED bundles_loaded

\* _load_parsed_bundles, one iteration of the loop
LoadStep ==
    /\ pc = "load" /\ idx <= Len(bundles_parsed)
    /\ \E r \in {"returned", "raised"} : RecordSequential(bundles_parsed[idx], r)
    /\ UNCHANGED <<input, concurrently, pc, inflight, exc, interrupts, bundles_parsed,
                   bundles_failed_unparsed, unattempted, success, propagated>>

\* _load_parsed_bundles returns
LoadFinished ==
    /\ pc = "load" /\ idx > Len(bundles_parsed)
    /\ pc' = "finally"
    /\ UNCHANGED <<input, concurrently, idx, inflight, exc, interrupts, lists, task,
                   unattempted, success, propagated>>

\* _load_parsed_bundles_concurrent: executor.submit of one bundle
Submit ==
    /\ pc = "submit" /\ idx <= Len(bundles_parsed)
    /\ task' = [task EXCEPT ![bundles_parsed[idx]] = "queued"]
    /\ idx' = idx + 1
    /\ UNCHANGED <<input, concurrently, pc, inflight, exc, interrupts, lists,
                   unattempted, success, propagated>>

\* every bundle is submitted; the main thread calls concurrent.futures.wait
SubmitFinished ==
    /\ pc = "submit" /\ idx > Len(bundles_parsed)
    /\ pc' = "wait"
    /\ UNCHANGED <<input, concurrently, idx, inflight, exc, interrupts, lists, task,
                   unattempted, success, propagated>>

\* _load_bundle_concurrent in a worker: the call of _load_bundle
WorkerLoad(b) ==
    /\ task[b] = "queued"
    /\ \E r \in {"returned", "raised"} : task' = [task EXCEPT ![b] = r]
    /\ UNCHANGED <<input, concurrently, pc, idx, inflight, exc, interrupts, lists,
                   unattempted, success, propagated>>

\* bundles_loaded.append as an unguarded read-modify-write: the worker writes
\* back the list it read earlier, extended by its bundle, and the appends of
\* other workers since then are lost
WorkerRecordLoadedRacy(b) ==
    /\ task[b] = "returned"
    /\ \E k \in 0..Len(bundles_loaded) :
           bundles_loaded' = Append(SubSeq(bundles_loaded, 1, k), b)
    /\ task' = [task EXCEPT ![b] = "done_returned"]
    /\ UNCHANGED <<input, concurrently, pc, idx, inflight, exc, interrupts, bundles_parsed,
                   bundles_failed_unparsed, bundles_failed_parsed, unattempted, success,
                   propagated>>

\* _load_bundle_concurrent in a worker: bundles_loaded.append
WorkerRecordLoaded(b) ==
    /\ task[b] = "returned"
    /\ bundles_loaded' = ListAppend(bundles_loaded, b)
    /\ task' = [task EXCEPT ![b] = "done_returned"]
    /\ UNCHANGED <<input, concurrently, pc, idx, inflight, exc, interrupts, bundles_parsed,
                   bundles_failed_unparsed, bundles_failed_parsed, unattempted, success,
                   propagated>>

\* _load_bundle_concurrent in a worker: bundles_failed_parsed.append
WorkerRecordFailed(b) ==
    /\ task[b] = "raised"
    /\ bundles_failed_parsed' = ListAppend(bundles_failed_parsed, b)
    /\ task' = [task EXCEPT ![b] = "done_raised"]
    /\ UNCHANGED <<input, concurrently, pc, idx, inflight, exc, interrupts, bundles_parsed,
                   bundles_failed_unparsed, bundles_loaded, unattempted, success,
                   propagated>>

\* concurrent.futures.wait returns: every future is done
WaitReturn ==
    /\ pc = "wait" /\ NoTaskPending
    /\ pc' = "exit"
    /\ UNCHANGED <<input, concurrently, idx, inflight, exc, interrupts, lists, task,
                   unattempted, success, propagated>>

\* the with block of the executor is left: shutdown(wait=True) has joined the
\* workers
ExecutorExit ==
    /\ pc = "exit" /\ NoTaskPending
    /\ pc' = "finally"
    /\ UNCHANGED <<input, concurrently, idx, inflight, exc, interrupts, lists, task,
                   unattempted, success, propagated>>

\* KeyboardInterrupt is raised in the main thread.  While parsing or loading
\* sequentially it leaves the loop at once; while submitting or waiting it
\* leaves the with block, whose exit joins the workers; raised again during
\* that join it leaves the join.
Interrupt ==
    /\ pc \in {"parse", "load", "submit", "wait", "exit"}
    /\ interrupts < MaxInterrupts
    /\ interrupts' = interrupts + 1
    /\ exc' = "KeyboardInterrupt"
    /\ pc' = IF pc \in {"submit", "wait"} THEN "exit" ELSE "finally"
    /\ inflight' = IF pc = "parse" /\ idx <= Len(input) THEN idx
                   ELSE IF pc = "load" /\ idx <= Len(bundles_parsed) THEN bundles_parsed[idx]
                   ELSE inflight
    /\ task' = IF pc = "load" /\ idx <= Len(bundles_parsed)
               THEN [task EXCEPT ![bundles_parsed[idx]] = "interrupted"]
               ELSE task
    /\ UNCHANGED <<input, concurrently, idx, lists, unattempted, success, propagated>>

\* the except clause of load_all_bundles
ExceptCatches(e) == e = "KeyboardInterrupt"

\* the finally block ends in a return statement
FinallyReturns == TRUE

\* bundles_unattempted of the finally block
Unattempted(n, fu, fp, ld) == n - fu - fp - ld

\* the success flag with the test of bundles_failed_parsed left out
SuccessFlagNoFailedParsed(n, fu, fp, ld) == Unattempted(n, fu, fp, ld) = 0 /\ ~(fu > 0)

\* the success flag with the test of bundles_unattempted left out
SuccessFlagNoUnattempted(n, fu, fp, ld) == ~(fu > 0) /\ ~(fp > 0)

\* the success flag the finally block returns
SuccessFlag(n, fu, fp, ld) ==
    /\ Unattempted(n, fu, fp, ld) = 0
    /\ ~(fu > 0)
    /\ ~(fp > 0)

\* the except clause and the finally block of load_all_bundles
FinalAccounting ==
    /\ pc = "finally"
    /\ unattempted' = Unattempted(Len(input), Len(bundles_failed_unparsed),
                                  Len(bundles_failed_parsed), Len(bundles_loaded))
    /\ success' = SuccessFlag(Len(input), Len(bundles_failed_unparsed),
                              Len(bundles_failed_parsed), Len(bundles_loaded))
    /\ propagated' = IF ExceptCatches(exc) \/ FinallyReturns THEN "none" ELSE exc
    /\ pc' = "done"
    /\ UNCHANGED <<input, concurrently, idx, inflight, exc, interrupts, lists, task>>

(***************************************************************************)
(* _load_bundle of the Standard and of the Gen3 uploader, step by step,    *)
(* and the loop of Gen3FormatBundleUploader.load_all_bundles around it.    *)
(*                                                                         *)
(* The Standard uploader's _load_bundle is given the fields of one         *)
(* ParsedBundle; its data_files are n parsed files.  The Gen3 uploader's   *)
(* load_all_bundles is given a list of bundles:                            *)
(*   bundle_did : the key is present                                       *)
(*   metadata   : "explicit" ('metadata' present), "legacy" (aliquot,      *)
(*                sample and core_metadata present) or "absent"            *)
(*   manifest   : [present, entries]; an entry has                         *)
(*     urls : "legacy" (s3url and gsurl), "urls" (a urls list) or "absent" *)
(*     ids  : "did", "id" (prefix/uuid), "id_noslash" or "absent"          *)
(*     name, updated_datetime : the key is present                         *)
(*                                                                         *)
(* Every call of the upload library returns or raises, as the environment  *)
(* chooses.  ld_events is the sequence of calls made and how they ended;   *)
(* dss_bundles holds the file lists handed to DssUploader.load_bundle.     *)
(***************************************************************************)
VARIABLES ld_uploader, ld_input, ld_i, ld_pc, ld_k, ld_exc, file_info_list,
          ld_events, dss_bundles

loadVars == <<ld_uploader, ld_input, ld_i, ld_pc, ld_k, ld_exc, file_info_list,
              ld_events, dss_bundles>>

Gen3GoodEntry == [urls |-> "urls", ids |-> "id", name |-> TRUE, updated_datetime |-> TRUE]
Gen3LegacyEntry == [urls |-> "legacy", ids |-> "did", name |-> TRUE, updated_datetime |-> TRUE]
Gen3UndatedEntry == [Gen3GoodEntry EXCEPT !.updated_datetime = FALSE]
Gen3SampleEntries == {Gen3GoodEntry, Gen3LegacyEntry, Gen3UndatedEntry}
Gen3Manifests == UNION {[1..n -> Gen3SampleEntries] : n \in 0..MaxFiles}
Gen3SampleBundles ==
    {[bundle_did |-> TRUE, metadata |-> "explicit",
      manifest |-> [present |-> TRUE, entries |-> m]] : m \in Gen3Manifests}
    \cup {[bundle_did |-> FALSE, metadata |-> "legacy",
           manifest |-> [present |-> TRUE, entries |-> <<Gen3LegacyEntry>>]],
          [bundle_did |-> TRUE, metadata |-> "absent",
           manifest |-> [present |-> TRUE, entries |-> <<>>]],
          [bundle_did |-> TRUE, metadata |-> "explicit",
           manifest |-> [present |-> FALSE, entries |-> <<>>]]}

\* longer input lists of load_all_bundles, of bundles that load and of bundles
\* without a manifest
Gen3Runs ==
    [1..MaxBundles ->
        {[bundle_did |-> TRUE, metadata |-> "explicit",
          manifest |-> [present |-> TRUE, entries |-> <<Gen3GoodEntry>>]],
         [bundle_did |-> TRUE, metadata |-> "explicit",
          manifest |-> [present |-> FALSE, entries |-> <<>>]]}]

\* the arguments of one call of the Standard uploader's _load_bundle
StandardParsedBundles == {[data_files |-> [k \in 1..n |-> "parsed"]] : n \in 0..MaxFiles}

\* Gen3FormatBundleUploader._parse_bundle: "ok" or the exception raised
Gen3ParseBundle(b) ==
    IF b.metadata = "absent" THEN "KeyError"
    ELSE IF ~b.manifest.present THEN "KeyError"
    ELSE "ok"

\* Gen3FormatBundleUploader._get_cloud_urls
Gen3GetCloudUrls(e) == IF e.urls = "absent" THEN "KeyError" ELSE "ok"

\* Gen3FormatBundleUploader._get_file_ids
Gen3GetFileIds(e) ==
    CASE e.ids = "did" -> "ok"
      [] e.ids = "id" -> "ok"
      [] e.ids = "id_noslash" -> "IndexError"
      [] e.ids = "absent" -> "KeyError"

\* what the Gen3 _load_bundle evaluates for a manifest entry before it calls
\* upload_cloud_file_by_reference
Gen3FileArguments(e) ==
    IF Gen3GetCloudUrls(e) # "ok" THEN Gen3GetCloudUrls(e)
    ELSE IF Gen3GetFileIds(e) # "ok" THEN Gen3GetFileIds(e)
    ELSE IF ~e.name THEN "KeyError"
    ELSE IF ~e.updated_datetime THEN "KeyError"
    ELSE "ok"

\* the files _load_bundle uploads by reference, in the order of its loop
DataFiles(u, b) == IF u = "standard" THEN b.data_files ELSE b.manifest.entries

\* the entry appended for a data file, marked as indexed
DataFileInfoIndexed(k) == [role |-> "data", name |-> <<"data", k>>, indexed |-> TRUE]

\* the file_info_list entry appended after the metadata upload
MetadataFileInfo == [role |-> "metadata", name |-> "metadata.json", indexed |-> TRUE]

\* the file_info_list entry appended after the upload of data file k
DataFileInfo(k) == [role |-> "data", name |-> <<"data", k>>, indexed |-> FALSE]

\* the bundle registered right after the metadata upload
AfterMetadataRegister == "register"

\* what _load_bundle does after the metadata upload: the loop over the data files
AfterMetadata == "data"

Event(op, k, how) == [bundle |-> ld_i, op |-> op, k |-> k, how |-> how]

LoadInit ==
    /\ ld_uploader \in {"standard", "gen3"}
    /\ ld_input \in IF ld_uploader = "standard"
                    THEN {<<b>> : b \in StandardParsedBundles}
                    ELSE UNION {[1..n -> Gen3SampleBundles] : n \in 0..2} \cup Gen3Runs
    /\ ld_i = 1
    /\ ld_pc = IF ld_input = <<>> THEN "returned" ELSE "start"
    /\ ld_k = 1
    /\ ld_exc = "none"
    /\ file_info_list = <<>>
    /\ ld_events = <<>>
    /\ dss_bundles = <<>>

\* _load_bundle is entered; the Gen3 uploader parses the bundle first
StartBundle ==
    /\ ld_pc = "start"
    /\ LET r == IF ld_uploader = "gen3" THEN Gen3ParseBundle(ld_input[ld_i]) ELSE "ok"
       IN  IF r = "ok"
           THEN ld_pc' = "metadata" /\ UNCHANGED ld_exc
           ELSE ld_pc' = "raised" /\ ld_exc' = r
    /\ file_info_list' = <<>>
    /\ ld_k' = 1
    /\ UNCHANGED <<ld_uploader, ld_input, ld_i, ld_events, dss_bundles>>

\* metadata_file_uploader.load_dict for metadata.json
UploadMetadata ==
    /\ ld_pc = "metadata"
    /\ \E how \in {"return", "raise"} :
          /\ ld_events' = ld_events \o <<Event("metadata", 0, "call"), Event("metadata", 0, how)>>
          /\ IF how = "return"
             THEN /\ file_info_list' = Append(file_info_list, MetadataFileInfo)
                  /\ ld_pc' = AfterMetadata
                  /\ UNCHANGED ld_exc
             ELSE /\ ld_pc' = "raised"
                  /\ ld_exc' = "Exception"
                  /\ UNCHANGED file_info_list
    /\ UNCHANGED <<ld_uploader, ld_input, ld_i, ld_k, dss_bundles>>

\* one iteration of the loop over the data files:
\* dss_uploader.upload_cloud_file_by_reference
UploadDataFile ==
    /\ ld_pc = "data"
    /\ ld_k <= Len(DataFiles(ld_uploader, ld_input[ld_i]))
    /\ LET e == DataFiles(ld_uploader, ld_input[ld_i])[ld_k]
           r == IF ld_uploader = "gen3" THEN Gen3FileArguments(e) ELSE "ok"
       IN  IF r # "ok"
           THEN /\ ld_pc' = "raised"
                /\ ld_exc' = r
                /\ UNCHANGED <<file_info_list, ld_k, ld_events>>
           ELSE \E how \in {"return", "raise"} :
                  /\ ld_events' = ld_events \o <<Event("file", ld_k, "call"),
                                                 Event("file", ld_k, how)>>
                  /\ IF how = "return"
                     THEN /\ file_info_list' = Append(file_info_list, DataFileInfo(ld_k))
                          /\ ld_k' = ld_k + 1
                          /\ UNCHANGED <<ld_pc, ld_exc>>
                     ELSE /\ ld_pc' = "raised"
                          /\ ld_exc' = "Exception"
                          /\ UNCHANGED <<file_info_list, ld_k>>
    /\ UNCHANGED <<ld_uploader, ld_input, ld_i, dss_bundles>>

\* the loop over the data files is left after any number of files
DataFilesDoneEarly ==
    /\ ld_pc = "data"
    /\ ld_pc' = "register"
    /\ UNCHANGED <<ld_uploader, ld_input, ld_i, ld_k, ld_exc, file_info_list,
                   ld_events, dss_bundles>>

\* the loop over the data files ends
DataFilesDone ==
    /\ ld_pc = "data"
    /\ ld_k > Len(DataFiles(ld_uploader, ld_input[ld_i]))
    /\ ld_pc' = "register"
    /\ UNCHANGED <<ld_uploader, ld_input, ld_i, ld_k, ld_exc, file_info_list,
                   ld_events, dss_bundles>>

\* dss_uploader.load_bundle(file_info_list, bundle_uuid)
RegisterBundle ==
    /\ ld_pc = "register"
    /\ dss_bundles' = Append(dss_bundles, [bundle |-> ld_i, files |-> file_info_list])
    /\ \E how \in {"return", "raise"} :
          /\ ld_events' = ld_events \o <<Event("put_bundle", 0, "call"),
                                         Event("put_bundle", 0, how)>>
          /\ IF how = "return"
             THEN ld_pc' = "returned" /\ UNCHANGED ld_exc
             ELSE ld_pc' = "raised" /\ ld_exc' = "Exception"
    /\ UNCHANGED <<ld_uploader, ld_input, ld_i, ld_k, file_info_list>>

\* the loop goes on to the next bundle after a bundle that raised as well
NextBundleAfterRaise ==
    /\ ld_pc \in {"returned", "raised"}
    /\ ld_uploader = "gen3"
    /\ ld_i < Len(ld_input)
    /\ ld_i' = ld_i + 1
    /\ ld_pc' = "start"
    /\ UNCHANGED <<ld_uploader, ld_input, ld_k, ld_exc, file_info_list, ld_events,
                   dss_bundles>>

\* Gen3FormatBundleUploader.load_all_bundles: the next bundle of the list
NextBundle ==
    /\ ld_pc = "returned"
    /\ ld_uploader = "gen3"
    /\ ld_i < Len(ld_input)
    /\ ld_i' = ld_i + 1
    /\ ld_pc' = "start"
    /\ UNCHANGED <<ld_uploader, ld_input, ld_k, ld_exc, file_info_list, ld_events,
                   dss_bundles>>

(***************************************************************************)
(* DssUploader.upload_cloud_file_by_reference, step by step:               *)
(*   _create_file_reference (one metadata probe per cloud URL),            *)
(*   upload_dict_as_file (temporary directory and file),                   *)
(*   upload_local_file -> _upload_local_file_to_staging,                   *)
(*   _upload_tagged_cloud_file_to_dss (put file, then head file polls).    *)
(*                                                                         *)
(* The caller makes up to MaxCalls calls, one after the other.  The cloud  *)
(* stores, the staging bucket and the DSS are the environment: every       *)
(* request ends in one of the outcomes the service can give.  d_requests   *)
(* is the sequence of requests sent by the call in progress (or, between   *)
(* calls, by the last one); d_results holds, per finished call, its        *)
(* arguments and the tuple returned or the exception raised.               *)
(***************************************************************************)
VARIABLES dry_run, d_pc, d_args, d_probed, d_tmp, d_version, d_polls,
          d_requests, d_results, dss_files

dssVars == <<dry_run, d_pc, d_args, d_probed, d_tmp, d_version, d_polls,
             d_requests, d_results, dss_files>>

\* the arguments of the calls made: filename, bundle_uuid and guid are the same
\* in every call; file_cloud_urls is a sequence of URL schemes
Arguments(file_uuid, file_cloud_urls, file_version) ==
    [filename |-> "a.bam", file_uuid |-> file_uuid,
     file_cloud_urls |-> file_cloud_urls, file_version |-> file_version]

ByReferenceArguments ==
    {Arguments("f1", <<"s3", "gs">>, "v1"),
     Arguments("f1", <<"https">>, "v1"),
     Arguments("f2", <<"s3">>, "None"),
     Arguments("f2", <<"gs">>, "v1")}

\* before the first call
NoArguments == Arguments("f1", <<>>, "None")

\* DssUploader.get_filename_from_key of the staging key "<file_uuid>/<basename>"
GetFilenameFromKey(a) == a.filename

\* the tuple _upload_tagged_cloud_file_to_dss returns
UploadResult(a, version) == <<a.file_uuid, version, GetFilenameFromKey(a)>>

\* a request of the current call and the response it got
Request(op, response) == [call |-> Len(d_results) + 1, op |-> op, response |-> response]

Finish(outcome, value) ==
    d_results' = Append(d_results, [args |-> d_args, outcome |-> outcome, value |-> value])

DssInit ==
    /\ dry_run \in BOOLEAN
    /\ d_pc = "idle"
    /\ d_args = NoArguments
    /\ d_probed = 0
    /\ d_tmp = {}
    /\ d_version = "None"
    /\ d_polls = 0
    /\ d_requests = <<>>
    /\ d_results = <<>>
    /\ dss_files = {}

\* upload_cloud_file_by_reference is called; in dry-run it logs the call, and
\* goes on in either mode
CallByReference ==
    /\ d_pc = "idle"
    /\ Len(d_results) < MaxCalls
    /\ \E a \in ByReferenceArguments : d_args' = a
    /\ d_pc' = "reference"
    /\ d_probed' = 0
    /\ d_polls' = 0
    /\ d_version' = "None"
    /\ d_requests' = <<>>
    /\ UNCHANGED <<dry_run, d_tmp, d_results, dss_files>>

\* _create_file_reference: the loop over the cloud URLs.  An s3 URL is probed
\* with head_object, where ClientError is caught; a gs URL with get_blob, where
\* every Exception is caught; any other scheme is logged.
ProbeCloudUrl ==
    /\ d_pc = "reference"
    /\ d_probed < Len(d_args.file_cloud_urls)
    /\ LET scheme == d_args.file_cloud_urls[d_probed + 1]
       IN  CASE scheme = "s3" ->
                  \E r \in {"found", "ClientError", "BotoCoreError"} :
                     /\ d_requests' = Append(d_requests, Request("s3_head_object", r))
                     /\ IF r = "BotoCoreError"
                        THEN /\ d_pc' = "idle"
                             /\ Finish("raised", <<r>>)
                             /\ UNCHANGED d_probed
                        ELSE /\ d_probed' = d_probed + 1
                             /\ UNCHANGED <<d_pc, d_results>>
             [] scheme = "gs" ->
                  /\ \E r \in {"found", "Exception"} :
                        d_requests' = Append(d_requests, Request("gs_get_blob", r))
                  /\ d_probed' = d_probed + 1
                  /\ UNCHANGED <<d_pc, d_results>>
             [] OTHER ->
                  /\ d_probed' = d_probed + 1
                  /\ UNCHANGED <<d_pc, d_results, d_requests>>
    /\ UNCHANGED <<dry_run, d_args, d_tmp, d_version, d_polls, dss_files>>

\* _consolidate_metadata, then upload_dict_as_file: mkdtemp and the file written
WriteTemporaryFile ==
    /\ d_pc = "reference"
    /\ d_probed = Len(d_args.file_cloud_urls)
    /\ d_tmp' = d_tmp \cup {Len(d_results) + 1}
    /\ d_pc' = "staging"
    /\ UNCHANGED <<dry_run, d_args, d_probed, d_version, d_polls, d_requests,
                   d_results, dss_files>>

\* upload_local_file: _upload_local_file_to_staging (upload_to_cloud)
UploadToStaging ==
    /\ d_pc = "staging"
    /\ \E r \in {"ok", "S3UploadFailedError"} :
          /\ d_requests' = Append(d_requests, Request("staging_upload", r))
          /\ IF r = "ok"
             THEN d_pc' = "register" /\ UNCHANGED d_results
             ELSE d_pc' = "idle" /\ Finish("raised", <<r>>)
    /\ UNCHANGED <<dry_run, d_args, d_probed, d_tmp, d_version, d_polls, dss_files>>

\* _upload_tagged_cloud_file_to_dss in dry-run: returns before any DSS request
RegisterDryRun ==
    /\ d_pc = "register"
    /\ dry_run
    /\ d_version' = d_args.file_version
    /\ d_pc' = "cleanup"
    /\ UNCHANGED <<dry_run, d_args, d_probed, d_tmp, d_polls, d_requests, d_results,
                   dss_files>>

\* _upload_tagged_cloud_file_to_dss: put file and the response's status code
PutFile ==
    /\ d_pc = "register"
    /\ ~dry_run
    /\ \E status \in {200, 201, 202, 409}, version \in {"dss_v1", "blank"} :
          /\ d_requests' = Append(d_requests, Request("put_file", <<status, version>>))
          /\ d_version' = version
          /\ CASE status \in {200, 201} ->
                    /\ dss_files' = dss_files \cup {<<d_args.file_uuid, version>>}
                    /\ d_pc' = "cleanup"
                    /\ UNCHANGED d_results
               [] status = 202 ->
                    /\ d_pc' = "poll"
                    /\ UNCHANGED <<dss_files, d_results>>
               [] OTHER ->
                    /\ d_pc' = "idle"
                    /\ Finish("raised", <<"AssertionError">>)
                    /\ UNCHANGED dss_files
    /\ UNCHANGED <<dry_run, d_args, d_probed, d_tmp, d_polls>>

\* the while loop's test fails: the timeout has passed
PollTimeout ==
    /\ d_pc = "poll"
    /\ d_pc' = "idle"
    /\ Finish("raised", <<"RuntimeError", "registration FAILED">>)
    /\ UNCHANGED <<dry_run, d_args, d_probed, d_tmp, d_version, d_polls, d_requests,
                   dss_files>>

\* every failing head file continues the polling
AfterHeadFileRetryAll(r) == IF r = "ok" THEN "break" ELSE "sleep"

\* what the polling loop does with the response to head file: a 404
\* SwaggerAPIException is followed by time.sleep(wait), any other one raises
AfterHeadFile(r) ==
    CASE r = "ok" -> "break"
      [] r = "not_found" -> "sleep"
      [] OTHER -> "raise"

\* one iteration of the polling loop: head file.  Each iteration that does not
\* leave the loop sleeps for wait >= 1.0 seconds, so the loop's test fails
\* after finitely many iterations: after MaxPolls of them at the latest here.
PollHeadFile ==
    /\ d_pc = "poll"
    /\ d_polls < MaxPolls
    /\ d_polls' = d_polls + 1
    /\ \E r \in {"ok", "not_found", "error"} :
          /\ d_requests' = Append(d_requests, Request("head_file", r))
          /\ CASE AfterHeadFile(r) = "break" ->
                    /\ dss_files' = dss_files \cup {<<d_args.file_uuid, d_version>>}
                    /\ d_pc' = "cleanup"
                    /\ UNCHANGED d_results
               [] AfterHeadFile(r) = "sleep" ->
                    UNCHANGED <<d_pc, d_results, dss_files>>
               [] OTHER ->
                    /\ d_pc' = "idle"
                    /\ Finish("raised", <<"RuntimeError", "Unexpected server response">>)
                    /\ UNCHANGED dss_files
    /\ UNCHANGED <<dry_run, d_args, d_probed, d_tmp, d_version>>

\* upload_dict_as_file after upload_local_file returned: os.remove, os.rmdir,
\* return result
RemoveTemporaryFile ==
    /\ d_pc = "cleanup"
    /\ d_tmp' = d_tmp \ {Len(d_results) + 1}
    /\ d_pc' = "idle"
    /\ Finish("returned", UploadResult(d_args, d_version))
    /\ UNCHANGED <<dry_run, d_args, d_probed, d_version, d_polls, d_requests, dss_files>>

(***************************************************************************)
(* The parsing functions of the Standard uploader, each applied to one     *)
(* argument: _get_file_uuid, _get_file_version, _get_cloud_urls and        *)
(* _parse_bundle.                                                          *)
(*                                                                         *)
(* A file guid is a sequence of tokens: a UUID (36 characters of the       *)
(* 8-4-4-4-12 form, its hexadecimal letters in lower or in upper case) or  *)
(* other text in which the pattern matches nowhere.                        *)
(*   p_fn    : the function applied                                        *)
(*   p_input : its argument                                                *)
(*   p_done, p_exc, p_value : it has ended, the exception it raised        *)
(*             ("none": it returned) and the value it returned             *)
(***************************************************************************)
VARIABLES p_fn, p_input, p_done, p_exc, p_value

parseVars == <<p_fn, p_input, p_done, p_exc, p_value>>

Text == [kind |-> "text", id |-> 0, case |-> "lower"]
Uuid(id, case) == [kind |-> "uuid", id |-> id, case |-> case]
GuidTokens == {Text, Uuid(1, "lower"), Uuid(1, "upper"), Uuid(2, "lower")}
Guids == UNION {[1..n -> GuidTokens] : n \in 0..MaxTokens}

\* str.lower without effect
LowerKeepCase(guid) == guid

\* str.lower
Lower(guid) == [k \in DOMAIN guid |-> [guid[k] EXCEPT !.case = "lower"]]

\* _uuid_regex.findall: the pattern has the lower-case hexadecimal digits only
UuidRegexFindall(s) == SelectSeq(s, LAMBDA t : t.kind = "uuid" /\ t.case = "lower")

\* StandardFormatBundleUploader._get_file_uuid on a file guid
FileUuid(file_guid) ==
    LET result == UuidRegexFindall(Lower(file_guid))
    IN  IF Len(result) # 1
        THEN [exc |-> "ParseError", value |-> <<>>]
        ELSE [exc |-> "none", value |-> <<result[1]>>]

\* the file_info objects _get_file_version is applied to
VersionInfos == [updated : VersionKinds, created : VersionKinds]

\* the file_info objects _get_cloud_urls is applied to
UrlInfos ==
    {[urls |-> [present |-> FALSE, entries |-> <<>>]]}
    \cup {[urls |-> [present |-> TRUE, entries |-> e]] :
             e \in UNION {[1..n -> UrlEntryKinds] : n \in 0..MaxUrls}}

\* the list _get_cloud_urls returns: the 'url' value of every entry, in order
CloudUrlsOf(f) == [k \in 1..Len(f.urls.entries) |-> <<"url", k>>]

\* the data objects of the bundles _parse_bundle is applied to
ParseSampleFiles ==
    {GoodFile, NamelessFile,
     [GoodFile EXCEPT !.is_dict = FALSE],
     [GoodFile EXCEPT !.nuuid = 2],
     [GoodFile EXCEPT !.created = "absent"],
     [GoodFile EXCEPT !.created = "nonstring"],
     [GoodFile EXCEPT !.urls = [present |-> FALSE, entries |-> <<>>]],
     [GoodFile EXCEPT !.urls = [present |-> TRUE, entries |-> <<>>]]}

NonMapping(kind, size, elem) == [kind |-> kind, size |-> size, elem |-> elem, files |-> <<>>]

ParseDataObjects ==
    {Mapping(files) : files \in UNION {[1..n -> ParseSampleFiles] : n \in 0..MaxFiles}}
    \cup {NonMapping("absent", 0, "none"), NonMapping("number", 0, "none"),
          NonMapping("null", 0, "none"),
          NonMapping("string", 0, "none"), NonMapping("string", 1, "none"),
          NonMapping("list", 0, "none"), NonMapping("list", 1, "not_an_index"),
          NonMapping("list", 1, "out_of_range")}

ParseBundleInputs ==
    {[data_bundle |-> k[1], id |-> k[2], user_metadata |-> k[3], data_objects |-> d] :
        k \in {<<TRUE, TRUE, TRUE>>, <<FALSE, FALSE, FALSE>>, <<TRUE, FALSE, TRUE>>,
               <<TRUE, TRUE, FALSE>>},
        d \in ParseDataObjects}

ParseInit ==
    /\ p_fn \in {"_get_file_uuid", "_get_file_version", "_get_cloud_urls", "_parse_bundle"}
    /\ p_input \in CASE p_fn = "_get_file_uuid" -> Guids
                     [] p_fn = "_get_file_version" -> VersionInfos
                     [] p_fn = "_get_cloud_urls" -> UrlInfos
                     [] OTHER -> ParseBundleInputs
    /\ p_done = FALSE
    /\ p_exc = "none"
    /\ p_value = <<>>

ApplyGetFileUuid ==
    /\ p_fn = "_get_file_uuid" /\ ~p_done
    /\ p_done' = TRUE
    /\ p_exc' = FileUuid(p_input).exc
    /\ p_value' = FileUuid(p_input).value
    /\ UNCHANGED <<p_fn, p_input>>

ApplyGetFileVersion ==
    /\ p_fn = "_get_file_version" /\ ~p_done
    /\ p_done' = TRUE
    /\ p_exc' = GetFileVersion(p_input).exc
    /\ p_value' = IF GetFileVersion(p_input).exc = "none"
                  THEN <<GetFileVersion(p_input).from>> ELSE <<>>
    /\ UNCHANGED <<p_fn, p_input>>

ApplyGetCloudUrls ==
    /\ p_fn = "_get_cloud_urls" /\ ~p_done
    /\ p_done' = TRUE
    /\ p_exc' = IF GetCloudUrls(p_input) = "ok" THEN "none" ELSE GetCloudUrls(p_input)
    /\ p_value' = IF GetCloudUrls(p_input) = "ok" THEN CloudUrlsOf(p_input) ELSE <<>>
    /\ UNCHANGED <<p_fn, p_input>>

ApplyParseBundle ==
    /\ p_fn = "_parse_bundle" /\ ~p_done
    /\ p_done' = TRUE
    /\ p_exc' = IF ParseBundle(p_input) = "ok" THEN "none" ELSE ParseBundle(p_input)
    /\ p_value' = IF ParseBundle(p_input) = "ok" THEN <<ParsedFileCount(p_input)>> ELSE <<>>
    /\ UNCHANGED <<p_fn, p_input>>

(***************************************************************************)
(* Transformer (transformer/transform.py).                                 *)
(*                                                                         *)
(* t_input is the sheepdog export handed to the constructor, t_metadata    *)
(* and t_data_objects_dict are the two indexes the constructor builds.     *)
(* The data objects are shared: a manifest holds references to entries of  *)
(* t_data_objects_dict (their keys), and _add_file_to_bundle writes name   *)
(* and updated_datetime into the shared entry.  t_bundles is the list of   *)
(* the bundles the generator of transform has yielded, in order; t_pos     *)
(* counts the aligned_reads_index nodes it has consumed.                   *)
(***************************************************************************)
VARIABLES t_input, t_metadata, t_data_objects_dict, t_pos, t_pc, t_exc, t_bundles

transformVars == <<t_input, t_metadata, t_data_objects_dict, t_pos, t_pc, t_exc,
                   t_bundles>>

MetadataLink(source_field_name, linked_field_name, link_name) ==
    [source_field_name |-> source_field_name,
     linked_field_name |-> linked_field_name,
     link_name |-> link_name]

\* self._metadata_links
MetadataLinks ==
    <<MetadataLink("aligned_reads_index", "submitted_aligned_reads",
                   "submitted_aligned_reads_files.id"),
      MetadataLink("submitted_aligned_reads", "read_group", "read_groups.id#1"),
      MetadataLink("read_group", "aliquot", "aliquots.id"),
      MetadataLink("aliquot", "sample", "samples.id#1"),
      MetadataLink("sample", "case", "cases.id")>>

\* the node types of the export
Fields == {"aligned_reads_index", "submitted_aligned_reads", "read_group",
           "aliquot", "sample", "case"}

\* the nodes of a type have the node ids 1..MaxNodes; a link map gives the
\* node id each of them stores under its link key
Straight == [i \in 1..MaxNodes |-> i]
Shifted == [i \in 1..MaxNodes |-> (i % MaxNodes) + 1]
AllToFirst == [i \in 1..MaxNodes |-> 1]
Dangling == [i \in 1..MaxNodes |-> MaxNodes + 1]
LinkMaps == {Straight, Shifted, AllToFirst}
Wirings == {w \in [1..5 -> LinkMaps \cup {Dangling}] : \A k \in 2..5 : w[k] # Dangling}

\* which data object the index node i and the alignment node j refer to
ObjectAssignments == {"distinct", "alignment_shares_index", "indexes_share"}
IndexObject(a, i) == IF a = "indexes_share" THEN 1 ELSE i
AlignmentObject(a, j) == IF a = "alignment_shares_index" THEN j ELSE MaxNodes + j

\* a node of the export
SheepdogNode(type, i, w, a) ==
    LET links(k) == (MetadataLinks[k].link_name :> w[k][i])
    IN  CASE type = "aligned_reads_index" ->
               [node_id |-> i, link_fields |-> links(1),
                object_id |-> IndexObject(a, i), file_name |-> <<type, i>>]
          [] type = "submitted_aligned_reads" ->
               [node_id |-> i, link_fields |-> links(2),
                object_id |-> AlignmentObject(a, i), file_name |-> <<type, i>>]
          [] type = "read_group" -> [node_id |-> i, link_fields |-> links(3)]
          [] type = "aliquot" -> [node_id |-> i, link_fields |-> links(4)]
          [] type = "sample" -> [node_id |-> i, link_fields |-> links(5)]
          [] type = "case" -> [node_id |-> i, link_fields |-> <<>>]

\* an export with n aligned_reads_index nodes
SheepdogExport(n, w, a) ==
    [metadata |->
        [f \in Fields |->
            [i \in 1..(IF f = "aligned_reads_index" THEN n ELSE MaxNodes) |->
                SheepdogNode(f, i, w, a)]],
     data_objects |-> [k \in 1..(2 * MaxNodes) |-> [id |-> k, created |-> <<"created", k>>]]]

SheepdogExports ==
    {SheepdogExport(n, w, a) : n \in 1..MaxNodes, w \in Wirings, a \in ObjectAssignments}

\* Transformer._build_data_objects_dict
BuildDataObjectsDict(data_objects) ==
    [id \in {data_objects[k].id : k \in DOMAIN data_objects} |->
        data_objects[CHOOSE k \in DOMAIN data_objects :
                        /\ data_objects[k].id = id
                        /\ \A q \in DOMAIN data_objects :
                              data_objects[q].id = id => q <= k]]

\* build_metadata_field: the entries of one node type by node_id
BuildMetadataField(entries) ==
    [id \in {entries[k].node_id : k \in DOMAIN entries} |->
        entries[CHOOSE k \in DOMAIN entries :
                   /\ entries[k].node_id = id
                   /\ \A q \in DOMAIN entries : entries[q].node_id = id => q <= k]]

\* Transformer._build_metadata_dict
BuildMetadataDict(input_metadata) ==
    [f \in DOMAIN input_metadata |-> BuildMetadataField(input_metadata[f])]

\* the values of self._metadata['aligned_reads_index'] in the order of the
\* dict, which is the order of the first occurrence of each node_id
AlignedReadsIndexValues ==
    LET entries == t_input.metadata["aligned_reads_index"]
        first == SelectSeq([k \in DOMAIN entries |-> k],
                           LAMBDA k : \A q \in 1..(k - 1) :
                                         entries[q].node_id # entries[k].node_id)
    IN  [p \in DOMAIN first |-> t_metadata["aligned_reads_index"][entries[first[p]].node_id]]

\* Transformer._add_metadata_field: the metadata map with the linked node
\* attached, or the KeyError of a link that leads nowhere
AddMetadataField(metadata_dict, link) ==
    LET source == metadata_dict[link.source_field_name]
    IN  IF link.link_name \notin DOMAIN source.link_fields
        THEN [exc |-> "KeyError", metadata_dict |-> metadata_dict]
        ELSE LET linked_field_key == source.link_fields[link.link_name]
                 linked_field == t_metadata[link.linked_field_name]
             IN  IF linked_field_key \notin DOMAIN linked_field
                 THEN [exc |-> "KeyError", metadata_dict |-> metadata_dict]
                 ELSE [exc |-> "none",
                       metadata_dict |->
                           (link.linked_field_name :> linked_field[linked_field_key])
                               @@ metadata_dict]

\* the loop of _build_bundle over self._metadata_links, from link k on
RECURSIVE AddMetadataFields(_, _)
AddMetadataFields(metadata_dict, k) ==
    IF k > Len(MetadataLinks) THEN [exc |-> "none", metadata_dict |-> metadata_dict]
    ELSE LET r == AddMetadataField(metadata_dict, MetadataLinks[k])
         IN  IF r.exc # "none" THEN r ELSE AddMetadataFields(r.metadata_dict, k + 1)

\* the name _add_file_to_bundle stores in the file_dict
AddFileName(metadata_dict, link_source) == metadata_dict[link_source].file_name

\* Transformer._add_file_to_bundle: the data objects after the assignments to
\* file_dict, and the manifest with the reference to file_dict appended
AddFileToBundle(objects, manifest, metadata_dict, link_source) ==
    LET file_key == metadata_dict[link_source].object_id
        file_dict == objects[file_key]
    IN  [objects |->
            [objects EXCEPT ![file_key] =
                ("name" :> AddFileName(metadata_dict, link_source))
                    @@ ("updated_datetime" :> <<file_dict["created"], "Z">>)
                    @@ file_dict],
         manifest |-> Append(manifest, file_key)]

\* Transformer._build_bundle after the metadata links: the two files, then
\* the bundle identifier
BuildBundle(metadata_dict, did) ==
    LET first == AddFileToBundle(t_data_objects_dict, <<>>, metadata_dict,
                                 "aligned_reads_index")
        second == AddFileToBundle(first.objects, first.manifest, metadata_dict,
                                  "submitted_aligned_reads")
    IN  [objects |-> second.objects,
         bundle |-> [metadata |-> metadata_dict, manifest |-> second.manifest,
                     bundle_did |-> <<"uuid4", did>>]]

\* Transformer.__init__
TransformInit ==
    /\ t_input \in SheepdogExports
    /\ t_metadata = BuildMetadataDict(t_input.metadata)
    /\ t_data_objects_dict = BuildDataObjectsDict(t_input.data_objects)
    /\ t_pos = 0
    /\ t_pc = "iterating"
    /\ t_exc = "none"
    /\ t_bundles = <<>>

\* the generator of transform yields the bundle of the next
\* aligned_reads_index node (index_to_bundle), or raises
IndexToBundle ==
    /\ t_pc = "iterating"
    /\ t_pos < Len(AlignedReadsIndexValues)
    /\ LET aligned_read_index == AlignedReadsIndexValues[t_pos + 1]
           r == AddMetadataFields(("aligned_reads_index" :> aligned_read_index), 1)
       IN  IF r.exc # "none"
           THEN /\ t_pc' = "raised"
                /\ t_exc' = r.exc
                /\ UNCHANGED <<t_data_objects_dict, t_pos, t_bundles>>
           ELSE LET b == BuildBundle(r.metadata_dict, t_pos + 1)
                IN  /\ t_data_objects_dict' = b.objects
                    /\ t_bundles' = Append(t_bundles, b.bundle)
                    /\ t_pos' = t_pos + 1
                    /\ UNCHANGED <<t_pc, t_exc>>
    /\ UNCHANGED <<t_input, t_metadata>>

\* the generator is exhausted: write_output has the whole list
TransformDone ==
    /\ t_pc = "iterating"
    /\ t_pos = Len(AlignedReadsIndexValues)
    /\ t_pc' = "done"
    /\ UNCHANGED <<t_input, t_metadata, t_data_objects_dict, t_pos, t_exc, t_bundles>>

(***************************************************************************)
(* The analysis library (dcp_analysis_functions.py): the pagination loops  *)
(* of field_distribution, demographic_study and calcium_score_survival,    *)
(* and the cache and the bucketing of calcium_score_survival.              *)
(*                                                                         *)
(* The metadata API holds a_counts records with the indexes                *)
(* 0..a_counts - 1 in the order of the queries (order_by_asc).             *)
(* a_requests is the list of the queries sent with query_api, a_data the   *)
(* concatenated pages (record indexes).  a_cached says whether the file    *)
(* <variable>_survival.json exists, a_written whether this call wrote it.  *)
(* a_k is the position of the loop over the cases, a_cac the score and the *)
(* bucket of the case bucketed last, a_values the number of cases added to *)
(* values.                                                                 *)
(***************************************************************************)
VARIABLES a_fn, a_counts, a_cached, a_pc, a_offset, a_requests, a_data, a_k,
          a_cac, a_values, a_written

analysisVars == <<a_fn, a_counts, a_cached, a_pc, a_offset, a_requests, a_data, a_k,
                  a_cac, a_values, a_written>>

\* chunk, in records: ChunkUnit stands for the 500 records of
\* calcium_score_survival, the other two functions ask for 1000
Chunk(fn) == IF fn = "calcium_score_survival" THEN ChunkUnit ELSE 2 * ChunkUnit

\* the calcium scores (agatum1c) of the cases of the model
Scores == {0, 1, 50, 99, 100, 101, 150, 299, 300, 301, 400}

\* the page the API returns for first:chunk, offset:offset
Page(offset, chunk) ==
    [q \in 1..(IF offset >= a_counts THEN 0 ELSE Min({chunk, a_counts - offset})) |->
        offset + q - 1]

\* offset += chunk, with a step one record short
NextOffsetOverlapping(offset, chunk) == offset + chunk - 1

\* offset += chunk
NextOffset(offset, chunk) == offset + chunk

\* the bucket of a score, with the upper ends of the ranges left out
CacRangeOpen(cac) ==
    IF cac = 0 THEN "0"
    ELSE IF cac > 0 /\ cac < 100 THEN "1-100"
    ELSE IF cac > 100 /\ cac < 300 THEN "101-300"
    ELSE ">300"

\* the if/elif chain of calcium_score_survival
CacRange(cac) ==
    IF cac = 0 THEN "0"
    ELSE IF cac > 0 /\ cac <= 100 THEN "1-100"
    ELSE IF cac > 100 /\ cac <= 300 THEN "101-300"
    ELSE ">300"

AnalysisInit ==
    /\ a_fn \in {"field_distribution", "demographic_study", "calcium_score_survival"}
    /\ a_counts \in 0..MaxCount
    /\ a_cached \in IF a_fn = "calcium_score_survival" THEN BOOLEAN ELSE {FALSE}
    /\ a_pc = "count"
    /\ a_offset = 0
    /\ a_requests = <<>>
    /\ a_data = <<>>
    /\ a_k = 1
    /\ a_cac = [score |-> 0, range |-> "none"]
    /\ a_values = 0
    /\ a_written = FALSE

\* counts = query_api(count_query)
CountQuery ==
    /\ a_pc = "count"
    /\ a_requests' = Append(a_requests, [query |-> "count", offset |-> 0])
    /\ a_pc' = IF a_fn = "calcium_score_survival" THEN "cache" ELSE "pages"
    /\ UNCHANGED <<a_fn, a_counts, a_cached, a_offset, a_data, a_k, a_cac, a_values,
                   a_written>>

\* os.path.isfile(filename): the values are read from the file
ReadCache ==
    /\ a_pc = "cache"
    /\ a_cached
    /\ a_pc' = "done"
    /\ UNCHANGED <<a_fn, a_counts, a_cached, a_offset, a_requests, a_data, a_k, a_cac,
                   a_values, a_written>>

\* the file does not exist: values = {} and the pagination loop
NoCache ==
    /\ a_pc = "cache"
    /\ ~a_cached
    /\ a_pc' = "pages"
    /\ UNCHANGED <<a_fn, a_counts, a_cached, a_offset, a_requests, a_data, a_k, a_cac,
                   a_values, a_written>>

\* one iteration of while offset <= counts
PageQuery ==
    /\ a_pc = "pages"
    /\ a_offset <= a_counts
    /\ a_requests' = Append(a_requests, [query |-> "page", offset |-> a_offset])
    /\ a_data' = a_data \o Page(a_offset, Chunk(a_fn))
    /\ a_offset' = NextOffset(a_offset, Chunk(a_fn))
    /\ UNCHANGED <<a_fn, a_counts, a_cached, a_pc, a_k, a_cac, a_values, a_written>>

\* the while loop ends
PagesDone ==
    /\ a_pc = "pages"
    /\ a_offset > a_counts
    /\ a_pc' = IF a_fn = "calcium_score_survival" THEN "cases" ELSE "done"
    /\ UNCHANGED <<a_fn, a_counts, a_cached, a_offset, a_requests, a_data, a_k, a_cac,
                   a_values, a_written>>

\* one iteration of for c in data: a case without a scan or a medical
\* history is skipped, a case without years is bucketed and not added
BucketCase ==
    /\ a_pc = "cases"
    /\ a_k <= Len(a_data)
    /\ \E c \in {"incomplete", "no_years", "full"}, cac \in Scores :
          /\ a_cac' = IF c = "incomplete" THEN a_cac
                      ELSE [score |-> cac, range |-> CacRange(cac)]
          /\ a_values' = IF c = "full" THEN a_values + 1 ELSE a_values
    /\ a_k' = a_k + 1
    /\ UNCHANGED <<a_fn, a_counts, a_cached, a_pc, a_offset, a_requests, a_data,
                   a_written>>

\* json.dump(values, fp) after the loop over the cases
WriteCache ==
    /\ a_pc = "cases"
    /\ a_k > Len(a_data)
    /\ a_written' = TRUE
    /\ a_cached' = TRUE
    /\ a_pc' = "done"
    /\ UNCHANGED <<a_fn, a_counts, a_offset, a_requests, a_data, a_k, a_cac, a_values>>

\* no analysis function called
AnalysisIdle ==
    /\ a_fn = "field_distribution"
    /\ a_counts = 0
    /\ a_cached = FALSE
    /\ a_pc = "done"
    /\ a_offset = 0
    /\ a_requests = <<>>
    /\ a_data = <<>>
    /\ a_k = 1
    /\ a_cac = [score |-> 0, range |-> "none"]
    /\ a_values = 0
    /\ a_written = FALSE

(***************************************************************************)
(* The waits of the polling loop of _upload_tagged_cloud_file_to_dss.      *)
(*                                                                         *)
(* Times are in milliseconds.  b_now is the time since the loop was        *)
(* entered (it advances by the sleeps), b_timeout is timeout_seconds,      *)
(* b_wait the variable wait, b_sleeps the number of sleeps so far.         *)
(* b_factor is dss_client.UPLOAD_BACKOFF_FACTOR in thousandths: the        *)
(* constant belongs to the DSS client library, this repository does not    *)
(* set it.                                                                 *)
(***************************************************************************)
VARIABLES b_factor, b_timeout, b_now, b_wait, b_sleeps, b_pc

backoffVars == <<b_factor, b_timeout, b_now, b_wait, b_sleeps, b_pc>>

\* values of UPLOAD_BACKOFF_FACTOR: the golden ratio of the hca releases the
\* loader was written against, and 2
BackoffFactors == {1618, 2000}

\* the wait after a not-found response, without the cap
NextWaitUncapped(wait, factor) == (wait * factor) \div 1000

\* wait = min(10.0, wait * self.dss_client.UPLOAD_BACKOFF_FACTOR)
NextWait(wait, factor) == Min({10000, (wait * factor) \div 1000})

\* timeout = time.time() + timeout_seconds; wait = 1.0
BackoffInit ==
    /\ b_factor \in BackoffFactors
    /\ b_timeout \in {5000 * t : t \in 1..MaxTimeout}
    /\ b_now = 0
    /\ b_wait = 1000
    /\ b_sleeps = 0
    /\ b_pc = "poll"

\* head_file raises SwaggerAPIException with code 404: sleep, then the new wait
HeadFileNotFound ==
    /\ b_pc = "poll"
    /\ b_now < b_timeout
    /\ b_now' = b_now + b_wait
    /\ b_wait' = NextWait(b_wait, b_factor)
    /\ b_sleeps' = b_sleeps + 1
    /\ UNCHANGED <<b_factor, b_timeout, b_pc>>

\* head_file returns (break) or raises with another code (RuntimeError)
HeadFileAnswered ==
    /\ b_pc = "poll"
    /\ b_now < b_timeout
    /\ b_pc' \in {"registered", "raised"}
    /\ UNCHANGED <<b_factor, b_timeout, b_now, b_wait, b_sleeps>>

\* the while condition fails: registration FAILED
BackoffTimeout ==
    /\ b_pc = "poll"
    /\ b_now >= b_timeout
    /\ b_pc' = "raised"
    /\ UNCHANGED <<b_factor, b_timeout, b_now, b_wait, b_sleeps>>

\* no polling loop
BackoffIdle ==
    /\ b_factor = 2000
    /\ b_timeout = 0
    /\ b_now = 0
    /\ b_wait = 1000
    /\ b_sleeps = 0
    /\ b_pc = "idle"

(***************************************************************************)
(* The other operations of DssUploader: load_bundle and upload_cloud_file  *)
(* (upload_dict_as_file and upload_local_file are the steps of             *)
(* upload_cloud_file_by_reference above).  d_loads counts the calls of     *)
(* load_bundle, d_put_bundles the put bundle requests sent to the DSS.     *)
(***************************************************************************)
VARIABLES d_loads, d_put_bundles

opsVars == <<d_loads, d_put_bundles>>

\* the arguments of upload_cloud_file, which passes no cloud URL and no version
CloudFileArguments == Arguments("f3", <<>>, "None")

\* load_bundle sends put bundle in either mode
LoadBundleAlwaysPut ==
    /\ d_pc = "idle"
    /\ d_loads < MaxCalls
    /\ d_loads' = d_loads + 1
    /\ d_put_bundles' = d_put_bundles + 1

\* DssUploader.load_bundle: put bundle unless dry_run
LoadBundle ==
    /\ d_pc = "idle"
    /\ d_loads < MaxCalls
    /\ d_loads' = d_loads + 1
    /\ d_put_bundles' = IF ~dry_run THEN d_put_bundles + 1 ELSE d_put_bundles

\* DssUploader.upload_cloud_file: _has_hca_tags reads the tags of the source
\* file, an untagged file is checksummed and tagged in place, then
\* _upload_tagged_cloud_file_to_dss registers it (the same steps as above;
\* there is no temporary file for its last step to remove)
CallUploadCloudFile ==
    /\ d_pc = "idle"
    /\ Len(d_results) < MaxCalls
    /\ d_args' = CloudFileArguments
    /\ d_probed' = 0
    /\ d_polls' = 0
    /\ d_version' = "None"
    /\ \E r \in {"tagged", "untagged", "BlobNotFoundError"} :
          /\ d_requests' =
                <<Request("get_user_metadata", r)>>
                    \o (IF r = "untagged"
                        THEN <<Request("download_fileobj", "ok"),
                               Request("put_object_tagging", "ok")>>
                        ELSE <<>>)
          /\ IF r = "BlobNotFoundError"
             THEN d_pc' = "idle" /\ Finish("raised", <<r>>)
             ELSE d_pc' = "register" /\ UNCHANGED d_results
    /\ UNCHANGED <<dry_run, d_tmp, dss_files>>

\* load_bundle not called
OpsIdle == d_loads = 0 /\ d_put_bundles = 0

(***************************************************************************)
(* A sequence of load_all_bundles calls on one                             *)
(* StandardFormatBundleUploader (sequential mode, no interrupt).           *)
(*                                                                         *)
(* The four lists belong to the instance: __init__ creates them and        *)
(* nothing empties them.  A bundle is named <<c, k>>: bundle k of the      *)
(* input of call c.  c_loads is the list of the _load_bundle calls made,   *)
(* each with the call of load_all_bundles that made it; c_result is what   *)
(* the last call computed and how it ended.                                *)
(***************************************************************************)
VARIABLES c_calls, c_bundles_parsed, c_bundles_failed_unparsed, c_bundles_loaded,
          c_bundles_failed_parsed, c_loads, c_result

callsVars == <<c_calls, c_bundles_parsed, c_bundles_failed_unparsed, c_bundles_loaded,
               c_bundles_failed_parsed, c_loads, c_result>>

\* values of input_json: lists of bundles, dicts (not lists, with a length),
\* and None (no length)
CallInputs ==
    {[type |-> "list", items |-> l] :
        l \in {<<>>, <<GoodBundle(1)>>, <<GoodBundle(0), GoodBundle(1)>>,
               <<BadBundle, GoodBundle(1)>>, <<NamelessBundle>>,
               <<GoodBundle(1), NamelessBundle>>}}
    \cup {[type |-> "dict", items |-> <<>>], [type |-> "dict", items |-> <<BadBundle>>],
          [type |-> "NoneType", items |-> <<>>]}

\* one call of load_all_bundles(input_json): len(input_json) for the log line,
\* _parse_all_bundles, _load_parsed_bundles with every _load_bundle of the
\* call ending as r, then the finally block, whose return discards exc
LoadAllBundles ==
    /\ c_calls < MaxCalls
    /\ c_calls' = c_calls + 1
    /\ \E input_json \in CallInputs, r \in {"returned", "raised"} :
        IF input_json.type = "NoneType"
        THEN /\ c_result' = [input |-> input_json, exc |-> "TypeError", unattempted |-> 0,
                             outcome |-> "raised", value |-> FALSE]
             /\ UNCHANGED <<c_bundles_parsed, c_bundles_failed_unparsed, c_bundles_loaded,
                            c_bundles_failed_parsed, c_loads>>
        ELSE
          LET n == Len(input_json.items)
              is_list == input_json.type = "list"
              result(k) == ParseBundle(input_json.items[k])
              \* the bundle at which _parse_all_bundles is left by an exception
              \* that is no ParseError
              stops == {k \in 1..n : result(k) \notin {"ok", "ParseError"}}
              cut == IF ~is_list THEN 0 ELSE IF stops = {} THEN n + 1 ELSE Min(stops)
              parse_exc == IF ~is_list THEN "ParseError"
                     ELSE IF stops = {} THEN "none" ELSE result(cut)
              seen == [k \in 1..(IF cut > n THEN n ELSE cut - 1) |-> k]
              name(k) == <<c_calls + 1, k>>
              ok == SelectSeq(seen, LAMBDA k : result(k) = "ok")
              bad == SelectSeq(seen, LAMBDA k : result(k) = "ParseError")
              parsed == c_bundles_parsed \o [q \in DOMAIN ok |-> name(ok[q])]
              failed_unparsed ==
                  c_bundles_failed_unparsed \o [q \in DOMAIN bad |-> name(bad[q])]
              \* _load_parsed_bundles runs when parsing was not left by an
              \* exception, over the whole of self.bundles_parsed
              to_load == IF parse_exc = "none" THEN parsed ELSE <<>>
              loaded == IF r = "returned" THEN c_bundles_loaded \o to_load
                        ELSE c_bundles_loaded
              failed_parsed == IF r = "raised" THEN c_bundles_failed_parsed \o to_load
                               ELSE c_bundles_failed_parsed
              bundles_unattempted ==
                  n - Len(failed_unparsed) - Len(failed_parsed) - Len(loaded)
          IN  /\ c_bundles_parsed' = parsed
              /\ c_bundles_failed_unparsed' = failed_unparsed
              /\ c_bundles_loaded' = loaded
              /\ c_bundles_failed_parsed' = failed_parsed
              /\ c_loads' = c_loads \o [q \in DOMAIN to_load |->
                                           [call |-> c_calls + 1, bundle |-> to_load[q]]]
              /\ c_result' =
                    [input |-> input_json, exc |-> parse_exc,
                     unattempted |-> bundles_unattempted,
                     outcome |-> "returned",
                     value |-> ~(\/ bundles_unattempted # 0
                                 \/ Len(failed_unparsed) > 0
                                 \/ Len(failed_parsed) > 0)]

\* no StandardFormatBundleUploader
CallsIdle ==
    /\ c_calls = MaxCalls
    /\ c_bundles_parsed = <<>>
    /\ c_bundles_failed_unparsed = <<>>
    /\ c_bundles_loaded = <<>>
    /\ c_bundles_failed_parsed = <<>>
    /\ c_loads = <<>>
    /\ c_result = [input |-> [type |-> "list", items |-> <<>>], exc |-> "none",
                   unattempted |-> 0, outcome |-> "none", value |-> TRUE]

\* no Transformer
TransformIdle ==
    /\ t_input = [metadata |-> [f \in Fields |-> <<>>], data_objects |-> <<>>]
    /\ t_metadata = [f \in Fields |-> <<>>]
    /\ t_data_objects_dict = <<>>
    /\ t_pos = 0
    /\ t_pc = "done"
    /\ t_exc = "none"
    /\ t_bundles = <<>>

\* no parsing function is applied
ParseIdle ==
    /\ p_fn = "none"
    /\ p_input = <<>>
    /\ p_done = FALSE
    /\ p_exc = "none"
    /\ p_value = <<>>

\* no call of the DssUploader
DssIdle ==
    /\ dry_run = FALSE
    /\ d_pc = "idle"
    /\ d_args = NoArguments
    /\ d_probed = 0
    /\ d_tmp = {}
    /\ d_version = "None"
    /\ d_polls = 0
    /\ d_requests = <<>>
    /\ d_results = <<>>
    /\ dss_files = {}

\* the per-bundle load is not running
LoadIdle ==
    /\ ld_uploader = "standard"
    /\ ld_input = <<>>
    /\ ld_i = 1
    /\ ld_pc = "returned"
    /\ ld_k = 1
    /\ ld_exc = "none"
    /\ file_info_list = <<>>
    /\ ld_events = <<>>
    /\ dss_bundles = <<>>

\* no run of load_all_bundles
RunIdle ==
    /\ input = <<>>
    /\ concurrently = FALSE
    /\ pc = "done"
    /\ idx = 1
    /\ inflight = 0
    /\ exc = "none"
    /\ interrupts = 0
    /\ bundles_parsed = <<>>
    /\ bundles_failed_unparsed = <<>>
    /\ bundles_loaded = <<>>
    /\ bundles_failed_parsed = <<>>
    /\ task = <<>>
    /\ unattempted = 0
    /\ success = TRUE
    /\ propagated = "none"

vars == <<runVars, loadVars, dssVars, parseVars, transformVars, analysisVars, backoffVars, opsVars, callsVars>>

Init == RunInit /\ LoadIdle /\ DssIdle /\ ParseIdle /\ TransformIdle /\ AnalysisIdle /\ BackoffIdle /\ OpsIdle /\ CallsIdle
Next ==
    \/ (ParseStep) /\ UNCHANGED <<loadVars, dssVars, parseVars, transformVars, analysisVars, backoffVars, opsVars, callsVars>>
    \/ (ParseFinished) /\ UNCHANGED <<loadVars, dssVars, parseVars, transformVars, analysisVars, backoffVars, opsVars, callsVars>>
    \/ (LoadStep) /\ UNCHANGED <<loadVars, dssVars, parseVars, transformVars, analysisVars, backoffVars, opsVars, callsVars>>
    \/ (LoadFinished) /\ UNCHANGED <<loadVars, dssVars, parseVars, transformVars, analysisVars, backoffVars, opsVars, callsVars>>
    \/ (Submit) /\ UNCHANGED <<loadVars, dssVars, parseVars, transformVars, analysisVars, backoffVars, opsVars, callsVars>>
    \/ (SubmitFinished) /\ UNCHANGED <<loadVars, dssVars, parseVars, transformVars, analysisVars, backoffVars, opsVars, callsVars>>
    \/ (\E b \in DOMAIN task : WorkerLoad(b)) /\ UNCHANGED <<loadVars, dssVars, parseVars, transformVars, analysisVars, backoffVars, opsVars, callsVars>>
    \/ (\E b \in DOMAIN task : WorkerRecordLoaded(b)) /\ UNCHANGED <<loadVars, dssVars, parseVars, transformVars, analysisVars, backoffVars, opsVars, callsVars>>
    \/ (\E b \in DOMAIN task : WorkerRecordFailed(b)) /\ UNCHANGED <<loadVars, dssVars, parseVars, transformVars, analysisVars, backoffVars, opsVars, callsVars>>
    \/ (WaitReturn) /\ UNCHANGED <<loadVars, dssVars, parseVars, transformVars, analysisVars, backoffVars, opsVars, callsVars>>
    \/ (ExecutorExit) /\ UNCHANGED <<loadVars, dssVars, parseVars, transformVars, analysisVars, backoffVars, opsVars, callsVars>>
    \/ (Interrupt) /\ UNCHANGED <<loadVars, dssVars, parseVars, transformVars, analysisVars, backoffVars, opsVars, callsVars>>
    \/ (FinalAccounting) /\ UNCHANGED <<loadVars, dssVars, parseVars, transformVars, analysisVars, backoffVars, opsVars, callsVars>>
Spec == Init /\ [][Next]_vars

InitLoad == LoadInit /\ RunIdle /\ DssIdle /\ ParseIdle /\ TransformIdle /\ AnalysisIdle /\ BackoffIdle /\ OpsIdle /\ CallsIdle
NextLoad ==
    \/ (StartBundle) /\ UNCHANGED <<runVars, dssVars, parseVars, transformVars, analysisVars, backoffVars, opsVars, callsVars>>
    \/ (UploadMetadata) /\ UNCHANGED <<runVars, dssVars, parseVars, transformVars, analysisVars, backoffVars, opsVars, callsVars>>
    \/ (UploadDataFile) /\ UNCHANGED <<runVars, dssVars, parseVars, transformVars, analysisVars, backoffVars, opsVars, callsVars>>
    \/ (DataFilesDone) /\ UNCHANGED <<runVars, dssVars, parseVars, transformVars, analysisVars, backoffVars, opsVars, callsVars>>
    \/ (RegisterBundle) /\ UNCHANGED <<runVars, dssVars, parseVars, transformVars, analysisVars, backoffVars, opsVars, callsVars>>
    \/ (NextBundle) /\ UNCHANGED <<runVars, dssVars, parseVars, transformVars, analysisVars, backoffVars, opsVars, callsVars>>
SpecLoad == InitLoad /\ [][NextLoad]_vars

InitDss == DssInit /\ RunIdle /\ LoadIdle /\ ParseIdle /\ TransformIdle /\ AnalysisIdle /\ BackoffIdle /\ OpsIdle /\ CallsIdle
NextDss ==
    \/ (CallByReference) /\ UNCHANGED <<runVars, loadVars, parseVars, transformVars, analysisVars, backoffVars, opsVars, callsVars>>
    \/ (ProbeCloudUrl) /\ UNCHANGED <<runVars, loadVars, parseVars, transformVars, analysisVars, backoffVars, opsVars, callsVars>>
    \/ (WriteTemporaryFile) /\ UNCHANGED <<runVars, loadVars, parseVars, transformVars, analysisVars, backoffVars, opsVars, callsVars>>
    \/ (UploadToStaging) /\ UNCHANGED <<runVars, loadVars, parseVars, transformVars, analysisVars, backoffVars, opsVars, callsVars>>
    \/ (RegisterDryRun) /\ UNCHANGED <<runVars, loadVars, parseVars, transformVars, analysisVars, backoffVars, opsVars, callsVars>>
    \/ (PutFile) /\ UNCHANGED <<runVars, loadVars, parseVars, transformVars, analysisVars, backoffVars, opsVars, callsVars>>
    \/ (PollTimeout) /\ UNCHANGED <<runVars, loadVars, parseVars, transformVars, analysisVars, backoffVars, opsVars, callsVars>>
    \/ (PollHeadFile) /\ UNCHANGED <<runVars, loadVars, parseVars, transformVars, analysisVars, backoffVars, opsVars, callsVars>>
    \/ (RemoveTemporaryFile) /\ UNCHANGED <<runVars, loadVars, parseVars, transformVars, analysisVars, backoffVars, opsVars, callsVars>>
SpecDss == InitDss /\ [][NextDss]_vars

InitParse == ParseInit /\ RunIdle /\ LoadIdle /\ DssIdle /\ TransformIdle /\ AnalysisIdle /\ BackoffIdle /\ OpsIdle /\ CallsIdle
NextParse ==
    \/ (ApplyGetFileUuid) /\ UNCHANGED <<runVars, loadVars, dssVars, transformVars, analysisVars, backoffVars, opsVars, callsVars>>
    \/ (ApplyGetFileVersion) /\ UNCHANGED <<runVars, loadVars, dssVars, transformVars, analysisVars, backoffVars, opsVars, callsVars>>
    \/ (ApplyGetCloudUrls) /\ UNCHANGED <<runVars, loadVars, dssVars, transformVars, analysisVars, backoffVars, opsVars, callsVars>>
    \/ (ApplyParseBundle) /\ UNCHANGED <<runVars, loadVars, dssVars, transformVars, analysisVars, backoffVars, opsVars, callsVars>>
SpecParse == InitParse /\ [][NextParse]_vars

InitTransform == TransformInit /\ RunIdle /\ LoadIdle /\ DssIdle /\ ParseIdle /\ AnalysisIdle /\ BackoffIdle /\ OpsIdle /\ CallsIdle
NextTransform ==
    \/ (IndexToBundle) /\ UNCHANGED <<runVars, loadVars, dssVars, parseVars, analysisVars, backoffVars, opsVars, callsVars>>
    \/ (TransformDone) /\ UNCHANGED <<runVars, loadVars, dssVars, parseVars, analysisVars, backoffVars, opsVars, callsVars>>
SpecTransform == InitTransform /\ [][NextTransform]_vars

InitAnalysis ==
    AnalysisInit /\ RunIdle /\ LoadIdle /\ DssIdle /\ ParseIdle /\ TransformIdle
        /\ BackoffIdle /\ OpsIdle /\ CallsIdle
NextAnalysis ==
    \/ (CountQuery) /\ UNCHANGED <<runVars, loadVars, dssVars, parseVars, transformVars, backoffVars, opsVars, callsVars>>
    \/ (ReadCache) /\ UNCHANGED <<runVars, loadVars, dssVars, parseVars, transformVars, backoffVars, opsVars, callsVars>>
    \/ (NoCache) /\ UNCHANGED <<runVars, loadVars, dssVars, parseVars, transformVars, backoffVars, opsVars, callsVars>>
    \/ (PageQuery) /\ UNCHANGED <<runVars, loadVars, dssVars, parseVars, transformVars, backoffVars, opsVars, callsVars>>
    \/ (PagesDone) /\ UNCHANGED <<runVars, loadVars, dssVars, parseVars, transformVars, backoffVars, opsVars, callsVars>>
    \/ (BucketCase) /\ UNCHANGED <<runVars, loadVars, dssVars, parseVars, transformVars, backoffVars, opsVars, callsVars>>
    \/ (WriteCache) /\ UNCHANGED <<runVars, loadVars, dssVars, parseVars, transformVars, backoffVars, opsVars, callsVars>>
SpecAnalysis == InitAnalysis /\ [][NextAnalysis]_vars

InitBackoff ==
    BackoffInit /\ RunIdle /\ LoadIdle /\ DssIdle /\ ParseIdle /\ TransformIdle
        /\ AnalysisIdle /\ OpsIdle /\ CallsIdle
NextBackoff ==
    \/ (HeadFileNotFound) /\ UNCHANGED <<runVars, loadVars, dssVars, parseVars, transformVars, analysisVars, opsVars, callsVars>>
    \/ (HeadFileAnswered) /\ UNCHANGED <<runVars, loadVars, dssVars, parseVars, transformVars, analysisVars, opsVars, callsVars>>
    \/ (BackoffTimeout) /\ UNCHANGED <<runVars, loadVars, dssVars, parseVars, transformVars, analysisVars, opsVars, callsVars>>
SpecBackoff == InitBackoff /\ [][NextBackoff]_vars

\* all operations of one DssUploader
NextOps ==
    \/ (CallByReference) /\ UNCHANGED <<runVars, loadVars, parseVars, transformVars, analysisVars, backoffVars, opsVars, callsVars>>
    \/ (ProbeCloudUrl) /\ UNCHANGED <<runVars, loadVars, parseVars, transformVars, analysisVars, backoffVars, opsVars, callsVars>>
    \/ (WriteTemporaryFile) /\ UNCHANGED <<runVars, loadVars, parseVars, transformVars, analysisVars, backoffVars, opsVars, callsVars>>
    \/ (UploadToStaging) /\ UNCHANGED <<runVars, loadVars, parseVars, transformVars, analysisVars, backoffVars, opsVars, callsVars>>
    \/ (RegisterDryRun) /\ UNCHANGED <<runVars, loadVars, parseVars, transformVars, analysisVars, backoffVars, opsVars, callsVars>>
    \/ (PutFile) /\ UNCHANGED <<runVars, loadVars, parseVars, transformVars, analysisVars, backoffVars, opsVars, callsVars>>
    \/ (PollTimeout) /\ UNCHANGED <<runVars, loadVars, parseVars, transformVars, analysisVars, backoffVars, opsVars, callsVars>>
    \/ (PollHeadFile) /\ UNCHANGED <<runVars, loadVars, parseVars, transformVars, analysisVars, backoffVars, opsVars, callsVars>>
    \/ (RemoveTemporaryFile) /\ UNCHANGED <<runVars, loadVars, parseVars, transformVars, analysisVars, backoffVars, opsVars, callsVars>>
    \/ (LoadBundle) /\ UNCHANGED <<runVars, loadVars, parseVars, transformVars, analysisVars, backoffVars, dssVars, callsVars>>
    \/ (CallUploadCloudFile) /\ UNCHANGED <<runVars, loadVars, parseVars, transformVars, analysisVars, backoffVars, opsVars, callsVars>>
SpecOps == InitDss /\ [][NextOps]_vars

\* StandardFormatBundleUploader.__init__
InitCalls ==
    /\ c_calls = 0
    /\ c_bundles_parsed = <<>>
    /\ c_bundles_failed_unparsed = <<>>
    /\ c_bundles_loaded = <<>>
    /\ c_bundles_failed_parsed = <<>>
    /\ c_loads = <<>>
    /\ c_result = [input |-> [type |-> "list", items |-> <<>>], exc |-> "none",
                   unattempted |-> 0, outcome |-> "none", value |-> TRUE]
    /\ RunIdle /\ LoadIdle /\ DssIdle /\ ParseIdle /\ TransformIdle
    /\ AnalysisIdle /\ BackoffIdle /\ OpsIdle
NextCalls ==
    \/ (LoadAllBundles) /\ UNCHANGED <<runVars, loadVars, dssVars, parseVars, transformVars, analysisVars, backoffVars, opsVars>>
SpecCalls == InitCalls /\ [][NextCalls]_vars

\* the thread that makes the calls keeps running
FairSpecDss == SpecDss /\ WF_vars(NextDss)

(***************************************************************************)
(* Properties of load_all_bundles.                                         *)
(***************************************************************************)
Recorded == Range(bundles_loaded) \cup Range(bundles_failed_parsed)
               \cup Range(bundles_failed_unparsed)
InNoList(b) == b \notin Recorded
Returns == pc = "finally" /\ pc' = "done"
NoDuplicates(l) == \A b \in Range(l) : Count(l, b) = 1

C3_InvalidBundleIsolated ==
    (pc = "done" /\ interrupts = 0) =>
        \A b \in 1..Len(input) :
            IF StructurallyValid(input[b])
            THEN b \in Range(bundles_parsed) /\ task[b] # "none"
            ELSE b \in Range(bundles_failed_unparsed)

\* C4: in a run that is not interrupted, in either mode, a parsed bundle
\* whose _load_bundle raised is once in bundles_failed_parsed and not in
\* bundles_loaded, and every other parsed bundle was attempted and is in
\* bundles_loaded or bundles_failed_parsed.
C4_LoadFailureIsolated ==
    (pc = "done" /\ interrupts = 0) =>
        \A b \in Range(bundles_parsed) :
            task[b] \in {"raised", "done_raised"} =>
                /\ Count(bundles_failed_parsed, b) = 1
                /\ b \notin Range(bundles_loaded)
                /\ \A c \in Range(bundles_parsed) \ {b} :
                       /\ task[c] \in {"done_returned", "done_raised"}
                       /\ c \in Range(bundles_loaded) \cup Range(bundles_failed_parsed)

\* a finished sequential run in which a bundle was loaded after the load of an
\* earlier bundle had raised
C4_Witness ==
    /\ pc = "done" /\ interrupts = 0 /\ ~concurrently
    /\ \E b, c \in Range(bundles_parsed) :
           /\ b < c
           /\ task[b] = "done_raised" /\ b \in Range(bundles_failed_parsed)
           /\ task[c] = "done_returned" /\ c \in Range(bundles_loaded)

C6_NoTaskRunningAtAccounting ==
    (concurrently /\ pc \in {"finally", "done"}) => NoTaskPending

\* C7: a run that was interrupted while parsing or loading returns: no
\* exception leaves it, it returns False when an input bundle is in none of
\* bundles_loaded, bundles_failed_parsed and bundles_failed_unparsed, and the
\* bundle the main thread was processing at the interrupt is in none of them.
C7_InterruptedRun ==
    (pc = "done" /\ interrupts > 0) =>
        /\ propagated = "none"
        /\ (\E b \in 1..Len(input) : InNoList(b)) => ~success
        /\ inflight # 0 => InNoList(inflight)

\* a finished run that was interrupted while the second parsed bundle was
\* being loaded, after the first had been loaded
C7_Witness ==
    /\ pc = "done" /\ interrupts = 1 /\ inflight # 0
    /\ task[inflight] = "interrupted"
    /\ bundles_loaded # <<>> /\ ~success

(***************************************************************************)
(* Properties of one bundle load.                                          *)
(***************************************************************************)
BundleEvents(i) == SelectSeq(ld_events, LAMBDA e : e.bundle = i)

IsEvent(e, op, k, how) == e.op = op /\ e.k = k /\ e.how = how

\* the calls of one bundle load do not overlap: a call is followed by its own end
OneAfterAnother(E) ==
    \A p \in DOMAIN E :
        E[p].how = "call" =>
            /\ p < Len(E)
            /\ E[p + 1].op = E[p].op
            /\ E[p + 1].k = E[p].k
            /\ E[p + 1].how \in {"return", "raise"}

\* the metadata upload has returned before a data-file upload starts
MetadataBeforeData(E) ==
    \A p \in DOMAIN E :
        (E[p].op = "file" /\ E[p].how = "call") =>
            \E q \in 1..(p - 1) : IsEvent(E[q], "metadata", 0, "return")

\* the data files are uploaded in input order: the j-th upload started is that
\* of the j-th file, and the upload of the file before it has returned
DataInInputOrder(E) ==
    \A p \in DOMAIN E :
        (E[p].op = "file" /\ E[p].how = "call") =>
            /\ E[p].k = 1 + Cardinality({q \in 1..(p - 1) :
                                           E[q].op = "file" /\ E[q].how = "call"})
            /\ E[p].k > 1 => \E q \in 1..(p - 1) : IsEvent(E[q], "file", E[p].k - 1, "return")

\* put bundle is issued after the metadata upload and all n data-file uploads returned
RegistrationLast(E, n) ==
    \A p \in DOMAIN E :
        (E[p].op = "put_bundle" /\ E[p].how = "call") =>
            /\ \E q \in 1..(p - 1) : IsEvent(E[q], "metadata", 0, "return")
            /\ \A k \in 1..n : \E q \in 1..(p - 1) : IsEvent(E[q], "file", k, "return")
            /\ \A q \in (p + 1)..Len(E) : E[q].op = "put_bundle"

\* C8: within one bundle load of the Standard and of the Gen3 uploader the
\* metadata upload completes before any data-file upload starts, the data files
\* are uploaded one after another in input order, and put bundle is issued
\* only after all data-file uploads have returned.
C8_UploadOrder ==
    \A i \in 1..Len(ld_input) :
        LET E == BundleEvents(i)
            n == Len(DataFiles(ld_uploader, ld_input[i]))
        IN  /\ OneAfterAnother(E)
            /\ MetadataBeforeData(E)
            /\ DataInInputOrder(E)
            /\ RegistrationLast(E, n)

\* a Gen3 bundle with two or more data files has been registered
C8_Witness ==
    /\ ld_uploader = "gen3"
    /\ ld_pc = "returned"
    /\ ld_input # <<>>
    /\ Len(DataFiles(ld_uploader, ld_input[ld_i])) >= 2
    /\ \E p \in DOMAIN ld_events :
          ld_events[p].bundle = ld_i /\ IsEvent(ld_events[p], "put_bundle", 0, "return")

\* C9: every file list passed to load_bundle by the Standard and the Gen3
\* uploader has exactly one entry with indexed = true, the metadata.json
\* entry, and an entry with indexed = false for each data file of the bundle,
\* whatever the number of data files (zero included).
C9_OneIndexedFile ==
    \A p \in DOMAIN dss_bundles :
        LET l == dss_bundles[p].files
            n == Len(DataFiles(ld_uploader, ld_input[dss_bundles[p].bundle]))
        IN  /\ Cardinality({q \in DOMAIN l : l[q].indexed}) = 1
            /\ \A q \in DOMAIN l :
                  l[q].indexed <=> (l[q].role = "metadata" /\ l[q].name = "metadata.json")
            /\ Cardinality({q \in DOMAIN l : l[q].role = "data"}) = n
            /\ Len(l) = n + 1

\* the Standard uploader registered a bundle that has no data file
C9_Witness ==
    /\ ld_uploader = "standard"
    /\ ld_pc = "returned"
    /\ Len(dss_bundles) = 1
    /\ Len(dss_bundles[1].files) = 1

\* bundle i of the input was registered: its put bundle returned
Registered(i) ==
    /\ \E p \in DOMAIN ld_events :
          ld_events[p].bundle = i /\ IsEvent(ld_events[p], "put_bundle", 0, "return")
    /\ \E p \in DOMAIN dss_bundles : dss_bundles[p].bundle = i

\* the Gen3 run was left by an exception
Gen3RunRaised == ld_uploader = "gen3" /\ ld_pc = "raised"

\* C19: in the Gen3 load_all_bundles the first bundle whose parse or load
\* raises ends the run: the exception is the caller's, every earlier bundle
\* was registered and stays registered, no later bundle of the list is
\* attempted, and nothing more happens in the run.
C19_Gen3NoIsolation ==
    /\ [](Gen3RunRaised =>
            /\ ld_exc # "none"
            /\ \A i \in 1..(ld_i - 1) : Registered(i)
            /\ \A i \in (ld_i + 1)..Len(ld_input) : BundleEvents(i) = <<>>)
    /\ [][Gen3RunRaised => UNCHANGED loadVars]_vars

\* the second bundle of a longer list raised after the first was registered
C19_Witness ==
    /\ Gen3RunRaised
    /\ ld_i >= 2
    /\ ld_i < Len(ld_input)
    /\ Registered(1)

(***************************************************************************)
(* Properties of upload_cloud_file_by_reference.                           *)
(***************************************************************************)
\* the call's result tuple has a fourth element, already_present, equal to v
AlreadyPresentIs(r, v) == r.outcome = "returned" /\ Len(r.value) = 4 /\ r.value[4] = v

\* C10: two calls of upload_cloud_file_by_reference with the same filename,
\* file UUID, cloud URLs, guid and file version, not in dry-run: the first
\* returns already_present = false and the second, when no request of it
\* fails, returns already_present = true.
C10_SecondCallAlreadyPresent ==
    (/\ ~dry_run
     /\ Len(d_results) >= 2
     /\ d_results[1].args = d_results[2].args
     /\ d_results[1].outcome = "returned"
     /\ d_results[2].outcome = "returned")
    => (/\ AlreadyPresentIs(d_results[1], FALSE)
        /\ AlreadyPresentIs(d_results[2], TRUE))

\* the requests of call n, in the order sent
CallRequests(n) == SelectSeq(d_requests, LAMBDA q : q.call = n)

OpRequests(n, op) == SelectSeq(CallRequests(n), LAMBDA q : q.op = op)

Finished(n) == n \in 1..Len(d_results)

\* the only cloud URL of call n is not accessible: its scheme is not
\* supported, or the probe of the s3 or gs object failed
OnlyUrlInaccessible(n) ==
    /\ Finished(n)
    /\ Len(d_results[n].args.file_cloud_urls) = 1
    /\ \/ d_results[n].args.file_cloud_urls[1] \notin {"s3", "gs"}
       \/ \E k \in DOMAIN CallRequests(n) :
             /\ CallRequests(n)[k].op \in {"s3_head_object", "gs_get_blob"}
             /\ CallRequests(n)[k].response \in {"ClientError", "Exception"}

\* the staging bucket and the DSS refused nothing in call n
ServicesAnswered(n) ==
    /\ \A k \in DOMAIN CallRequests(n) :
          LET q == CallRequests(n)[k]
          IN  /\ q.op = "staging_upload" => q.response = "ok"
              /\ q.op = "put_file" => q.response[1] \in {200, 201, 202}
              /\ q.op = "head_file" => q.response \in {"ok", "not_found"}
    /\ Finished(n) => d_results[n].value # <<"RuntimeError", "registration FAILED">>

LastCall == Len(d_results)

\* C11: a by-reference upload whose only cloud URL has an unsupported scheme or
\* names an s3 or gs object that does not exist raises the file-URL error: it
\* does not return, stages no file reference, sends no put file and raises no
\* other error, the staging bucket and the DSS being in order.
C11_BadUrlRaisesFileUrlError ==
    LET n == LastCall
    IN  (d_pc = "idle" /\ OnlyUrlInaccessible(n) /\ ServicesAnswered(n)) =>
            /\ d_results[n].outcome = "raised"
            /\ d_results[n].value[1] = "FileURLError"
            /\ OpRequests(n, "staging_upload") = <<>>
            /\ OpRequests(n, "put_file") = <<>>

\* C12: in dry-run mode upload_cloud_file_by_reference sends no request: no
\* s3 or gs metadata probe, no staging upload, no DSS request.
C12_DryRunSendsNothing ==
    dry_run => d_requests = <<>>

\* the put file request of the call whose requests d_requests holds
PutFileSent == OpRequests(Len(d_results) + (IF d_pc = "idle" THEN 0 ELSE 1), "put_file")

Polls == SelectSeq(d_requests, LAMBDA q : q.op = "head_file")

\* the call whose requests d_requests holds has ended, returning the version of
\* the put file response
ReturnedRegisteredVersion ==
    /\ d_pc = "idle"
    /\ d_results[LastCall].outcome = "returned"
    /\ d_results[LastCall].value[2] = PutFileSent[1].response[2]

RaisedRuntimeError(msg) ==
    /\ d_pc = "idle"
    /\ d_results[LastCall].outcome = "raised"
    /\ d_results[LastCall].value = <<"RuntimeError", msg>>

\* what holds of the registration step in every state
RegistrationSteps ==
    (~dry_run /\ PutFileSent # <<>>) =>
        LET status == PutFileSent[1].response[1]
        IN  /\ Len(PutFileSent) = 1
            /\ status \in {200, 201} =>
                  /\ Polls = <<>>
                  /\ d_pc = "cleanup" \/ ReturnedRegisteredVersion
            /\ Polls # <<>> => status = 202
            /\ \A k \in 1..(Len(Polls) - 1) : Polls[k].response = "not_found"
            /\ (Polls # <<>> /\ Polls[Len(Polls)].response = "not_found") =>
                  d_pc = "poll" \/ RaisedRuntimeError("registration FAILED")
            /\ (Polls # <<>> /\ Polls[Len(Polls)].response = "error") =>
                  RaisedRuntimeError("Unexpected server response")
            /\ (Polls # <<>> /\ Polls[Len(Polls)].response = "ok") =>
                  d_pc = "cleanup" \/ ReturnedRegisteredVersion
            /\ (status = 202 /\ Polls = <<>>) =>
                  d_pc = "poll" \/ RaisedRuntimeError("registration FAILED")

\* C13: in the registration step outside dry-run, a 200/201 put file response
\* returns the response's version without a poll; a 202 response starts the
\* polling of head file, where a not-found response is followed by another
\* poll or, the timeout having passed, by the registration-failed error, any
\* other error response raises at once and a successful head ends the call
\* with the version returned; and the polling always ends.
C13_Registration ==
    /\ []RegistrationSteps
    /\ (d_pc = "poll") ~> (d_pc = "idle")

\* a call that returned after a 202 response, a not-found poll and a
\* successful poll
C13_Witness ==
    /\ ~dry_run
    /\ PutFileSent # <<>> /\ PutFileSent[1].response[1] = 202
    /\ Len(Polls) = 2
    /\ Polls[1].response = "not_found" /\ Polls[2].response = "ok"
    /\ ReturnedRegisteredVersion

(***************************************************************************)
(* Properties of the parsing functions.                                    *)
(***************************************************************************)
Applied(fn) == p_fn = fn /\ p_done

\* the UUIDs a guid contains, whatever their case
EmbeddedUuids(guid) == SelectSeq(guid, LAMBDA t : t.kind = "uuid")

\* C14 as stated: _get_file_uuid returns the embedded UUID when the guid has
\* exactly one match of the pattern, case ignored, returns a guid that is a
\* bare UUID unchanged, and raises ParseError on zero or several matches.
C14_EmbeddedUuidUnchanged ==
    Applied("_get_file_uuid") =>
        IF Len(EmbeddedUuids(p_input)) = 1
        THEN /\ p_exc = "none"
             /\ p_value = EmbeddedUuids(p_input)
             /\ Len(p_input) = 1 => p_value = p_input
        ELSE p_exc = "ParseError"

\* C14 amended: _get_file_uuid returns the embedded UUID in lower case when
\* the guid has exactly one match of the pattern, case ignored, so a guid that
\* is a bare lower-case UUID is returned unchanged, and raises ParseError on
\* zero or several matches.
C14_EmbeddedUuidLowered ==
    Applied("_get_file_uuid") =>
        IF Len(EmbeddedUuids(p_input)) = 1
        THEN /\ p_exc = "none"
             /\ p_value = <<Uuid(EmbeddedUuids(p_input)[1].id, "lower")>>
             /\ (Len(p_input) = 1 /\ p_input[1].case = "lower") => p_value = p_input
        ELSE p_exc = "ParseError"

\* the UUID of a guid with a prefix and an upper-case UUID was returned
C14_Witness ==
    /\ Applied("_get_file_uuid")
    /\ p_input = <<Text, Uuid(1, "upper")>>
    /\ p_exc = "none"
    /\ p_value = <<Uuid(1, "lower")>>

\* C15: _get_file_version returns 'updated' when it is present and matches the
\* pattern, otherwise 'created' when that is present and matches, otherwise it
\* raises ParseError; a present value that does not match counts as absent and
\* causes no other failure.
C15_VersionOrParseError ==
    Applied("_get_file_version") =>
        IF p_input.updated = "valid" THEN p_exc = "none" /\ p_value = <<"updated">>
        ELSE IF p_input.created = "valid" THEN p_exc = "none" /\ p_value = <<"created">>
        ELSE p_exc = "ParseError"

\* C16: _get_cloud_urls raises ParseError when 'urls' is absent or empty or an
\* entry has no 'url' key, entries that are strings included; otherwise it
\* returns the 'url' values of the entries in order.
C16_UrlsOrParseError ==
    Applied("_get_cloud_urls") =>
        IF \/ ~p_input.urls.present
           \/ p_input.urls.entries = <<>>
           \/ \E k \in DOMAIN p_input.urls.entries : p_input.urls.entries[k] # "dict_url"
        THEN p_exc = "ParseError"
        ELSE p_exc = "none" /\ p_value = CloudUrlsOf(p_input)

\* a data object that is a mapping with one UUID in its guid and whose urls,
\* when it has some, are well formed
FileOnlyLacksFields(f) ==
    /\ f.is_dict /\ f.nuuid = 1
    /\ \A k \in DOMAIN f.urls.entries : f.urls.entries[k] = "dict_url"

\* a required field is missing
FileLacksField(f) ==
    \/ ~f.name
    \/ (f.updated # "valid" /\ f.created # "valid")
    \/ ~f.urls.present
    \/ f.urls.entries = <<>>

\* C17: _parse_bundle raises ParseError, and nothing else, when data_bundle,
\* its id or user_metadata, data_objects or, in a data object, the name, a
\* usable updated/created or a non-empty urls list is missing; a bundle that
\* has them all parses into a ParsedBundle with one file per data object.
C17_MissingFieldIsParseError ==
    (/\ Applied("_parse_bundle")
     /\ p_input.data_objects.kind \in {"absent", "mapping"}
     /\ \A k \in DOMAIN p_input.data_objects.files :
           FileOnlyLacksFields(p_input.data_objects.files[k]))
    => IF \/ ~p_input.data_bundle \/ ~p_input.id \/ ~p_input.user_metadata
          \/ p_input.data_objects.kind = "absent"
          \/ \E k \in DOMAIN p_input.data_objects.files :
                FileLacksField(p_input.data_objects.files[k])
       THEN p_exc = "ParseError"
       ELSE p_exc = "none" /\ p_value = <<Len(p_input.data_objects.files)>>

\* C18: _parse_bundle raises ParseError for a data_objects value that is a
\* string, a list, a number or null, the empty string and the empty list
\* included.
C18_NonMappingIsParseError ==
    (/\ Applied("_parse_bundle")
     /\ p_input.data_bundle /\ p_input.id /\ p_input.user_metadata
     /\ p_input.data_objects.kind \in {"string", "list", "number", "null"})
    => p_exc = "ParseError"

(***************************************************************************)
(* Properties of the Transformer.                                          *)
(***************************************************************************)
\* the node of the export with the given type and node_id
ExportNode(type, id) ==
    LET entries == t_input.metadata[type]
    IN  entries[CHOOSE k \in DOMAIN entries : entries[k].node_id = id]

\* the data object of the export with the given id
ExportObject(id) ==
    LET objects == t_input.data_objects
    IN  objects[CHOOSE k \in DOMAIN objects : objects[k].id = id]

\* the manifest of a yielded bundle as it reads now
Manifest(bundle) ==
    [k \in DOMAIN bundle.manifest |-> t_data_objects_dict[bundle.manifest[k]]]

\* the metadata map holds the seed node and the five nodes reached from it
LinkedMetadata(bundle, node) ==
    /\ DOMAIN bundle.metadata = Fields
    /\ bundle.metadata["aligned_reads_index"] = node
    /\ \A k \in DOMAIN MetadataLinks :
          LET l == MetadataLinks[k]
          IN  bundle.metadata[l.linked_field_name] =
                  ExportNode(l.linked_field_name,
                             bundle.metadata[l.source_field_name].link_fields[l.link_name])

\* a manifest entry is the node's data object, named after the node
FileEntryOf(entry, node) ==
    /\ entry["id"] = node.object_id
    /\ entry["name"] = node.file_name
    /\ entry["updated_datetime"] = <<ExportObject(node.object_id).created, "Z">>

\* the manifest holds the index file, then the alignment file
TwoFileManifest(bundle) ==
    LET m == Manifest(bundle)
    IN  /\ Len(m) = 2
        /\ FileEntryOf(m[1], bundle.metadata["aligned_reads_index"])
        /\ FileEntryOf(m[2], bundle.metadata["submitted_aligned_reads"])

\* no exception ended the generator
TransformCompleted == t_pc = "done" /\ t_exc = "none"

\* C20: transform yields exactly one bundle per aligned_reads_index node; the
\* metadata map of each bundle holds that node and the submitted_aligned_reads,
\* read_group, aliquot, sample and case nodes reached from it over the five
\* link keys, and its manifest holds exactly two entries, the index file and
\* then the alignment file, each named after its node's file_name and with
\* updated_datetime equal to the data object's created value followed by 'Z'.
C20_OneBundlePerIndexNode ==
    /\ TransformCompleted =>
          Len(t_bundles) = Len(t_input.metadata["aligned_reads_index"])
    /\ \A p \in DOMAIN t_bundles :
          /\ LinkedMetadata(t_bundles[p], t_input.metadata["aligned_reads_index"][p])
          /\ TwoFileManifest(t_bundles[p])

\* the file nodes of the yielded bundles that name the same data object agree
\* on the file name
FileNodesAgree ==
    \A p, q \in DOMAIN t_bundles :
        \A f, g \in {"aligned_reads_index", "submitted_aligned_reads"} :
            LET m == t_bundles[p].metadata[f]
                n == t_bundles[q].metadata[g]
            IN  m.object_id = n.object_id => m.file_name = n.file_name

\* without two file nodes that name one data object differently, the
\* bundles are as C20 says
BundlesOfAgreeingFileNodes == FileNodesAgree => C20_OneBundlePerIndexNode

(***************************************************************************)
(* Properties of the analysis library.                                     *)
(***************************************************************************)
\* C21: calcium_score_survival maps a calcium score to exactly one bucket:
\* '0' if and only if the score is 0, '1-100' iff 0 < score <= 100,
\* '101-300' iff 100 < score <= 300, and '>300' iff score > 300.
C21_CacRanges ==
    a_cac.range # "none" =>
        /\ a_cac.range \in {"0", "1-100", "101-300", ">300"}
        /\ a_cac.range = "0" <=> a_cac.score = 0
        /\ a_cac.range = "1-100" <=> (0 < a_cac.score /\ a_cac.score <= 100)
        /\ a_cac.range = "101-300" <=> (100 < a_cac.score /\ a_cac.score <= 300)
        /\ a_cac.range = ">300" <=> a_cac.score > 300

\* a case with the score 300, the upper end of a range, was bucketed
C21_Witness == a_cac.range = "101-300" /\ a_cac.score = 300

\* the file <variable>_survival.json existed when the call began
CacheFileExisted == a_fn = "calcium_score_survival" /\ a_cached /\ ~a_written

\* the page queries sent so far, as the list of their offsets
PageOffsets ==
    LET pages == SelectSeq(a_requests, LAMBDA r : r.query = "page")
    IN  [i \in DOMAIN pages |-> pages[i].offset]

\* C22: when the cache file exists calcium_score_survival sends no query to
\* the metadata API; page queries and the write of the cache file happen only
\* when the file does not exist.
C22_CacheMeansNoQuery ==
    /\ CacheFileExisted => a_requests = <<>>
    /\ (PageOffsets # <<>> \/ a_written) => ~CacheFileExisted

\* C25: the pagination loops send page queries with the offsets 0, chunk,
\* 2*chunk, ..., none above the record count, concatenate the pages in that
\* order, and after the loop the data hold every record index below the
\* count exactly once.
C25_PagesInOffsetOrder ==
    /\ \A i \in DOMAIN PageOffsets :
          /\ PageOffsets[i] = (i - 1) * Chunk(a_fn)
          /\ PageOffsets[i] <= a_counts
    /\ a_data = [q \in 1..Len(a_data) |-> q - 1]
    /\ (a_pc \in {"cases", "done"} /\ ~CacheFileExisted) => Len(a_data) = a_counts

\* a loop ended after a last page that was not full
C25_Witness ==
    /\ a_pc = "done"
    /\ Len(PageOffsets) >= 2
    /\ a_counts % Chunk(a_fn) # 0
    /\ Len(a_data) = a_counts

(***************************************************************************)
(* Properties of the polling waits.                                        *)
(***************************************************************************)
\* the first wait is 1.0 second and no wait is above 10.0 seconds
WaitInRange ==
    b_pc # "idle" =>
        /\ b_wait <= 10000
        /\ b_sleeps = 0 => b_wait = 1000

\* C23: the wait between polls starts at 1.0 second, doubles after every
\* not-found response up to the cap, never decreases and never exceeds 10.0
\* seconds.
C23_WaitDoubles ==
    /\ []WaitInRange
    /\ [][b_sleeps' # b_sleeps =>
             /\ b_wait' = Min({10000, 2 * b_wait})
             /\ b_wait' >= b_wait]_vars

\* the wait starts at 1.0 second, becomes min(10.0, wait * factor) after every
\* not-found response, never decreases and never exceeds 10.0 seconds
C23_WaitGrowsByFactor ==
    /\ []WaitInRange
    /\ [][b_sleeps' # b_sleeps =>
             /\ b_wait' = Min({10000, (b_wait * b_factor) \div 1000})
             /\ b_wait' >= b_wait]_vars

\* the wait has reached the cap and the loop polls again
C23_Witness == b_pc = "poll" /\ b_wait = 10000 /\ b_sleeps >= 4 /\ b_now < b_timeout

(***************************************************************************)
(* Properties of one bundle load.                                          *)
(***************************************************************************)
\* bundle i has an event of the operation op for file k that ended as how
HasEvent(i, op, k, how) ==
    \E p \in DOMAIN ld_events :
        ld_events[p].bundle = i /\ IsEvent(ld_events[p], op, k, how)

\* the Gen3 loop over the manifest stands at an entry that lacks only
\* updated_datetime, after the metadata upload and the earlier files returned
AtUndatedEntry ==
    /\ ld_uploader = "gen3"
    /\ ld_input # <<>>
    /\ HasEvent(ld_i, "metadata", 0, "return")
    /\ ld_k \in DOMAIN DataFiles(ld_uploader, ld_input[ld_i])
    /\ DataFiles(ld_uploader, ld_input[ld_i])[ld_k] = Gen3UndatedEntry
    /\ ~HasEvent(ld_i, "file", ld_k, "call")

\* C24: in the Gen3 uploader updated_datetime is optional: a manifest entry
\* without it is still uploaded by reference, so the load does not end with
\* an exception at such an entry before the upload is called.
C24_UndatedEntryUploaded == AtUndatedEntry => ld_pc # "raised"

\* C26: a bundle is registered (put bundle) only after its metadata upload
\* and every one of its data-file uploads returned: no upload of the bundle
\* raised, and a bundle with an upload that raised is never registered.
C26_RegisteredAfterAllUploads ==
    /\ \A p \in DOMAIN dss_bundles :
          LET i == dss_bundles[p].bundle
              n == Len(DataFiles(ld_uploader, ld_input[i]))
          IN  /\ HasEvent(i, "metadata", 0, "return")
              /\ \A k \in 1..n : HasEvent(i, "file", k, "return")
              /\ ~HasEvent(i, "metadata", 0, "raise")
              /\ \A k \in 1..n : ~HasEvent(i, "file", k, "raise")
    /\ \A i \in DOMAIN ld_input :
          (HasEvent(i, "metadata", 0, "raise")
             \/ \E k \in 1..MaxFiles : HasEvent(i, "file", k, "raise"))
          => ~HasEvent(i, "put_bundle", 0, "call")

\* the upload of the second data file of a bundle raised and the bundle is
\* not registered
C26_Witness ==
    /\ ld_pc = "raised"
    /\ HasEvent(ld_i, "file", 1, "return")
    /\ HasEvent(ld_i, "file", 2, "raise")
    /\ \A p \in DOMAIN dss_bundles : dss_bundles[p].bundle # ld_i

(***************************************************************************)
(* Properties of the DssUploader operations in dry-run mode.               *)
(***************************************************************************)
\* the requests of the current call that go to the DSS
DssRequests == SelectSeq(d_requests, LAMBDA r : r.op \in {"put_file", "head_file"})

\* C27: in dry-run mode no sequence of DssUploader operations sends a DSS
\* request: put file, head file and put bundle are never called.
C27_DryRunNoDssRequest == dry_run => (DssRequests = <<>> /\ d_put_bundles = 0)

\* in dry-run mode load_bundle, upload_cloud_file and
\* upload_cloud_file_by_reference have been called and have returned
C27_Witness ==
    /\ dry_run
    /\ d_loads >= 1
    /\ \E n, m \in DOMAIN d_results :
          /\ d_results[n].outcome = "returned" /\ d_results[n].args = CloudFileArguments
          /\ d_results[m].outcome = "returned" /\ d_results[m].args \in ByReferenceArguments

\* C30: after a call of upload_dict_as_file has returned or raised, the
\* temporary file and the temporary directory it created do not exist.
C30_TemporaryFileRemoved == d_pc = "idle" => d_tmp = {}

(***************************************************************************)
(* Properties of load_all_bundles over all inputs and over several calls.  *)
(***************************************************************************)
\* the last call's parsing was left by an exception
ParsingCutShort == c_result.outcome # "none" /\ c_result.exc # "none"

\* C28: load_all_bundles lets no exception escape: for every input it
\* returns a boolean, and when parsing was cut short by an exception (an
\* input that is no list, or an error other than ParseError raised while one
\* bundle was parsed) the flag returned is False.
C28_ReturnsFalseWhenParsingCutShort ==
    /\ c_result.outcome # "raised"
    /\ (c_calls = 1 /\ ParsingCutShort) => c_result.value = FALSE

\* C29: in a sequence of load_all_bundles calls on one instance, a call loads
\* bundles of its own input only, and the unattempted count it computes is
\* not negative.
C29_CallsAreIndependent ==
    /\ \A q \in DOMAIN c_loads : c_loads[q].bundle[1] = c_loads[q].call
    /\ c_result.unattempted >= 0

====
